---- MODULE Spec2Model ----
(***************************************************************************)
(* A model of gfauto (graphicsfuzz): the crash-signature classifier of     *)
(* fuzz.py and the BinaryManager of binaries_util.py.                      *)
(*                                                                         *)
(* Text is modelled by TLA+ strings, which TLC treats as sequences of      *)
(* characters (Len, SubSeq and \o apply to them).  Positions are 1-based   *)
(* as in TLA+; where the source uses Python's 0-based str.find, the        *)
(* operator find keeps Python's convention (-1 when absent).               *)
(***************************************************************************)
EXTENDS Integers, Sequences, FiniteSets, TLC

VARIABLES
    log_contents,   \* the argument of get_signature_from_log_contents
    signature,      \* its return value (meaningful once sig_pc = "returned")
    sig_pc,         \* "start" before the call, "returned" after it; "idle"
                    \* in the specifications that do not call the classifier
    managers,       \* the BinaryManager objects, the root first: each one's
                    \* _binary_list and _platform, and the references it
                    \* holds in _resolved_paths and _binary_artifacts
    resolved_paths, \* the dict objects that managers refer to as
                    \* _resolved_paths: each a function from a serialized
                    \* Binary to a path
    binary_artifacts, \* the list objects that managers refer to as
                    \* _binary_artifacts: each a catalog
    materialized,   \* the artifacts whose recipe has been executed
    catalog_scans,  \* how often binary_artifacts_find has run
    last,           \* what the last call on a manager did and returned
    active_devices, \* the Device list given to handle_glsl_test: each
                    \* device's name and the kind of its oneof field
    tool_outcomes,  \* per device, what the external tools do when
                    \* run_shader_job calls them for it
    result_dirs,    \* per device, the directory
                    \* test_get_results_directory(test_dir, device.name)
    streams,        \* the stack of gflogging's streams
    calls,          \* the external tools invoked so far, in order
    reports,        \* the directories under reports_dir
    report_paths,   \* handle_glsl_test's list of that name
    exit,           \* how the last call of run_shader_job, of
                    \* handle_glsl_test or of main ended
    pc,             \* the position in main, handle_glsl_test or
                    \* run_shader_job
    iteration,      \* main's loop: the references found, the locals of the
                    \* iteration, the paths made under temp_dir, test_dirs
    cts             \* add_amber_tests_to_cts: the file being edited (a
                    \* must-pass list or the C++ test table), its lines, the
                    \* Amber test's name, and the lines before each run

sigVars == <<log_contents, signature, sig_pc>>

fuzzVars == <<active_devices, tool_outcomes, result_dirs, streams, calls,
              reports, report_paths, exit, pc, iteration>>

binVars == <<managers, resolved_paths, binary_artifacts, materialized,
             catalog_scans, last>>

vars == <<log_contents, signature, sig_pc, managers, resolved_paths,
          binary_artifacts, materialized, catalog_scans, last,
          active_devices, tool_outcomes, result_dirs, streams, calls,
          reports, report_paths, exit, pc, iteration, cts>>

(***************************************************************************)
(* Characters and character classes of Python's re module (str patterns).  *)
(***************************************************************************)
AsciiLetters ==
    {"a","b","c","d","e","f","g","h","i","j","k","l","m",
     "n","o","p","q","r","s","t","u","v","w","x","y","z",
     "A","B","C","D","E","F","G","H","I","J","K","L","M",
     "N","O","P","Q","R","S","T","U","V","W","X","Y","Z"}

AsciiDigits == {"0","1","2","3","4","5","6","7","8","9"}

\* The ASCII characters that are neither letters nor digits and occur in logs.
AsciiOther ==
    {" ", "\n", "_", ":", ",", ".", "'", "-", "\"", "(", ")", "+", "/", "#",
     "*", "[", "]", "<", ">", "=", ";", "!", "?", "&", "%", "@", "$", "|",
     "{", "}", "~", "^"}

IsAscii(c) == c \in AsciiLetters \cup AsciiDigits \cup AsciiOther

\* \d : the logs of the model hold no digit outside ASCII.
IsDigit(c) == c \in AsciiDigits

\* \w of a str pattern is Unicode-aware: ASCII letters, digits and "_", and
\* also every letter outside ASCII (the only non-ASCII characters of the
\* model's logs are letters).
IsWord(c) == c \in AsciiLetters \/ c \in AsciiDigits \/ c = "_" \/ ~IsAscii(c)

IsWordOrSpace(c) == IsWord(c) \/ c = " "

\* [\w .'\-"] of PATTERN_SPIRV_OPT_ERROR
IsSpirvOptMsgChar(c) == IsWord(c) \/ c \in {" ", ".", "'", "-", "\""}

\* [^/(] and [^)+] of PATTERN_CATCHSEGV_STACK_FRAME (negated classes match "\n")
IsNotSlashOrOpen(c) == c \notin {"/", "("}

IsNotCloseOrPlus(c) == c \notin {")", "+"}

(***************************************************************************)
(* String helpers.                                                         *)
(***************************************************************************)
\* s[a-1:b] of Python: the characters at the 1-based indices a..b that exist.
Slice(s, a, b) ==
    SubSeq(s, IF a < 1 THEN 1 ELSE a, IF b > Len(s) THEN Len(s) ELSE b)

\* The character at 1-based index i; "" when s has no such index.
CharAt(s, i) == Slice(s, i, i)

SetMin(S) == CHOOSE x \in S : \A y \in S : x <= y

SetMax(S) == CHOOSE x \in S : \A y \in S : x >= y

\* str.find: the lowest 0-based index at which t occurs in s, or -1.
find(s, t) ==
    LET P == {i \in 0..(Len(s) - Len(t)) : SubSeq(s, i + 1, i + Len(t)) = t}
    IN  IF P = {} THEN -1 ELSE SetMin(P)

\* str.split("\n"): the sequence of lines of s.
RECURSIVE split(_)
split(s) ==
    LET i == find(s, "\n")
    IN  IF i = -1 THEN <<s>>
        ELSE <<SubSeq(s, 1, i)>> \o split(SubSeq(s, i + 2, Len(s)))

\* The 1-based index of the last character of the longest run of characters
\* of class C that starts at index i of s; i - 1 when the run is empty.  This
\* is what a greedy C* or C+ consumes when the pattern's next item cannot
\* match a character of C.
RunEnd(s, i, C(_)) ==
    LET stop == CHOOSE k \in i..(Len(s) + 1) :
                    /\ k = Len(s) + 1 \/ ~C(CharAt(s, k))
                    /\ \A m \in i..(k - 1) : C(CharAt(s, m))
    IN  stop - 1

\* s[:n]
Truncate(s, n) == SubSeq(s, 1, IF Len(s) < n THEN Len(s) ELSE n)

\* re.sub(r"\d+", "", s)
RECURSIVE RemoveNumbers(_)
RemoveNumbers(s) ==
    IF s = "" THEN ""
    ELSE (IF IsDigit(CharAt(s, 1)) THEN "" ELSE CharAt(s, 1))
             \o RemoveNumbers(SubSeq(s, 2, Len(s)))

\* re.sub(r"[^\w]", "_", s)
RECURSIVE ReplaceNonWord(_)
ReplaceNonWord(s) ==
    IF s = "" THEN ""
    ELSE (IF IsWord(CharAt(s, 1)) THEN CharAt(s, 1) ELSE "_")
             \o ReplaceNonWord(SubSeq(s, 2, Len(s)))

\* The result of next(re.finditer(pattern, text), None): no match, or the
\* first match's group(1).
NoMatch == [matched |-> FALSE, group |-> ""]

Match(g) == [matched |-> TRUE, group |-> g]

(***************************************************************************)
(* The patterns of fuzz.py, each as the operator that gives the first      *)
(* match of the pattern in a text.                                         *)
(***************************************************************************)

\* PATTERN_SPIRV_OPT_ERROR = ^error: line \d+: ([\w .'\-"]+)
\* ^ anchors the match at the start of the line.
PATTERN_SPIRV_OPT_ERROR(line) ==
    LET d == RunEnd(line, 13, IsDigit)
        g == RunEnd(line, d + 3, IsSpirvOptMsgChar)
    IN  IF /\ Slice(line, 1, 12) = "error: line "
           /\ d >= 13
           /\ Slice(line, d + 1, d + 2) = ": "
           /\ g >= d + 3
        THEN Match(Slice(line, d + 3, g))
        ELSE NoMatch

\* PATTERN_AMBER_ERROR = \w: \d+: ([\w ]+)$
\* The group of a match that starts at index i, or NoMatch.
AmberErrorAt(line, i) ==
    LET d == RunEnd(line, i + 3, IsDigit)
        g == RunEnd(line, d + 3, IsWordOrSpace)
    IN  IF /\ IsWord(CharAt(line, i))
           /\ Slice(line, i + 1, i + 2) = ": "
           /\ d >= i + 3
           /\ Slice(line, d + 1, d + 2) = ": "
           /\ g >= d + 3
           /\ g = Len(line)
        THEN Match(Slice(line, d + 3, g))
        ELSE NoMatch

PATTERN_AMBER_ERROR(line) ==
    LET P == {i \in 1..Len(line) : AmberErrorAt(line, i).matched}
    IN  IF P = {} THEN NoMatch ELSE AmberErrorAt(line, SetMin(P))

\* PATTERN_GLSLANG_ERROR = \w+:\d+: '([\w ]+)'
GlslangErrorAt(line, i) ==
    LET w == RunEnd(line, i, IsWord)
        d == RunEnd(line, w + 2, IsDigit)
        g == RunEnd(line, d + 4, IsWordOrSpace)
    IN  IF /\ w >= i
           /\ CharAt(line, w + 1) = ":"
           /\ d >= w + 2
           /\ Slice(line, d + 1, d + 3) = ": '"
           /\ g >= d + 4
           /\ CharAt(line, g + 1) = "'"
        THEN Match(Slice(line, d + 4, g))
        ELSE NoMatch

PATTERN_GLSLANG_ERROR(line) ==
    LET P == {i \in 1..Len(line) : GlslangErrorAt(line, i).matched}
    IN  IF P = {} THEN NoMatch ELSE GlslangErrorAt(line, SetMin(P))

\* PATTERN_CPP_FUNCTION = ::(\w+)\(
CppFunctionAt(line, i) ==
    LET w == RunEnd(line, i + 2, IsWord)
    IN  IF /\ Slice(line, i, i + 1) = "::"
           /\ w >= i + 2
           /\ CharAt(line, w + 1) = "("
        THEN Match(Slice(line, i + 2, w))
        ELSE NoMatch

PATTERN_CPP_FUNCTION(line) ==
    LET P == {i \in 1..Len(line) : CppFunctionAt(line, i).matched}
    IN  IF P = {} THEN NoMatch ELSE CppFunctionAt(line, SetMin(P))

\* PATTERN_C_FUNCTION = \((\w+)(\+\d+\)|\()
CFunctionAt(line, i) ==
    LET w == RunEnd(line, i + 1, IsWord)
        d == RunEnd(line, w + 2, IsDigit)
    IN  IF /\ CharAt(line, i) = "("
           /\ w >= i + 1
           /\ \/ /\ CharAt(line, w + 1) = "+"
                 /\ d >= w + 2
                 /\ CharAt(line, d + 1) = ")"
              \/ CharAt(line, w + 1) = "("
        THEN Match(Slice(line, i + 1, w))
        ELSE NoMatch

PATTERN_C_FUNCTION(line) ==
    LET P == {i \in 1..Len(line) : CFunctionAt(line, i).matched}
    IN  IF P = {} THEN NoMatch ELSE CFunctionAt(line, SetMin(P))

\* PATTERN_CATCHSEGV_STACK_FRAME = Backtrace:\n.*/([^/(]*\([^)+]+)\+
\* The group of a match whose "/" is at index k, or NoMatch.
CatchsegvFrameAtSlash(text, k) ==
    LET p == RunEnd(text, k + 1, IsNotSlashOrOpen)
        q == RunEnd(text, p + 2, IsNotCloseOrPlus)
    IN  IF /\ CharAt(text, k) = "/"
           /\ CharAt(text, p + 1) = "("
           /\ q >= p + 2
           /\ CharAt(text, q + 1) = "+"
        THEN Match(Slice(text, k + 1, q))
        ELSE NoMatch

\* "." does not match "\n": the greedy .* stays on the line that follows
\* "Backtrace:\n" and gives up characters from its end, so of the "/" of that
\* line from which the rest of the pattern matches, the last one is taken.
CatchsegvFrameAt(text, b) ==
    LET lineEnd == RunEnd(text, b + 11, LAMBDA c : c # "\n")
        K == {k \in (b + 11)..lineEnd : CatchsegvFrameAtSlash(text, k).matched}
    IN  IF Slice(text, b, b + 10) = "Backtrace:\n" /\ K # {}
        THEN CatchsegvFrameAtSlash(text, SetMax(K))
        ELSE NoMatch

PATTERN_CATCHSEGV_STACK_FRAME(text) ==
    LET P == {b \in 1..Len(text) : CatchsegvFrameAt(text, b).matched}
    IN  IF P = {} THEN NoMatch ELSE CatchsegvFrameAt(text, SetMin(P))

(***************************************************************************)
(* get_signature_from_log_contents (fuzz.py), rule by rule.  A rule gives  *)
(* [hit |-> TRUE, sig |-> the value it returns] or Miss when control falls *)
(* through to the next "if" of the function.                               *)
(***************************************************************************)
Miss == [hit |-> FALSE, sig |-> ""]

Hit(s) == [hit |-> TRUE, sig |-> s]

Contains(s, t) == find(s, t) # -1

\* group[:20] of the spirv-opt rule and group[:50] of the catchsegv rule
SPIRV_OPT_SIGNATURE_LENGTH == 20

CATCHSEGV_SIGNATURE_LENGTH == 50

\* for line in lines: the first line on which pattern P matches, as P's match
\* on it; NoMatch when the loop ends without a match.
FirstLineMatch(lines, P(_)) ==
    LET I == {i \in 1..Len(lines) : P(lines[i]).matched}
    IN  IF I = {} THEN NoMatch ELSE P(lines[SetMin(I)])

\* Mutant of FixedStringRules: the link test is made before the compile test.
FixedStringRules_LinkFirst(log) ==
    IF Contains(log, "Failed to link shaders") THEN Hit("link_error")
    ELSE IF Contains(log, "Shader compilation failed") THEN Hit("compile_error")
    ELSE IF Contains(log, "Calling vkCreateGraphicsPipelines Fail")
         THEN Hit("pipeline_failure")
    ELSE IF Contains(log, "Resource deadlock would occur")
         THEN Hit("Resource_deadlock_would_occur")
    ELSE Miss

\* The four "if log_contents.find(...) != -1: return <fixed string>".
FixedStringRules(log) ==
    IF Contains(log, "Shader compilation failed") THEN Hit("compile_error")
    ELSE IF Contains(log, "Failed to link shaders") THEN Hit("link_error")
    ELSE IF Contains(log, "Calling vkCreateGraphicsPipelines Fail")
         THEN Hit("pipeline_failure")
    ELSE IF Contains(log, "Resource deadlock would occur")
         THEN Hit("Resource_deadlock_would_occur")
    ELSE Miss

\* Mutant of SpirvOptRule: the length is reduced before the numbers are removed.
SpirvOptRule_TruncateFirst(log) ==
    LET m == FirstLineMatch(split(log), PATTERN_SPIRV_OPT_ERROR)
    IN  IF Contains(log, "error: line ") /\ m.matched
        THEN Hit(ReplaceNonWord(RemoveNumbers(
                     Truncate(m.group, SPIRV_OPT_SIGNATURE_LENGTH))))
        ELSE Miss

SpirvOptRule(log) ==
    LET m == FirstLineMatch(split(log), PATTERN_SPIRV_OPT_ERROR)
    IN  IF Contains(log, "error: line ") /\ m.matched
        THEN Hit(Truncate(ReplaceNonWord(RemoveNumbers(m.group)),
                          SPIRV_OPT_SIGNATURE_LENGTH))
        ELSE Miss

\* Mutant of AmberRule: with the trigger in the log and no line that matches,
\* the rule returns an empty signature.
AmberRule_EmptyOnNoMatch(log) ==
    LET m == FirstLineMatch(split(log), PATTERN_AMBER_ERROR)
    IN  IF ~Contains(log, "0 pass, 1 fail") THEN Miss
        ELSE IF m.matched THEN Hit(ReplaceNonWord(RemoveNumbers(m.group)))
        ELSE Hit("")

AmberRule(log) ==
    LET m == FirstLineMatch(split(log), PATTERN_AMBER_ERROR)
    IN  IF Contains(log, "0 pass, 1 fail") /\ m.matched
        THEN Hit(ReplaceNonWord(RemoveNumbers(m.group)))
        ELSE Miss

GlslangRule(log) ==
    LET m == FirstLineMatch(split(log), PATTERN_GLSLANG_ERROR)
    IN  IF Contains(log, "SPIR-V is not generated for failed compile or link")
           /\ m.matched
        THEN Hit(ReplaceNonWord(RemoveNumbers(m.group)))
        ELSE Miss

\* Mutant of AndroidFrameRule: the line is not cut to start at "#00 pc".
AndroidFrameRule_NoTrim(log) ==
    LET lines == split(log)
        I     == {i \in 1..Len(lines) : find(lines[i], "#00 pc") # -1}
        line  == lines[SetMin(I)]
        cpp   == PATTERN_CPP_FUNCTION(line)
        c     == PATTERN_C_FUNCTION(line)
    IN  IF ~Contains(log, "#00 pc") THEN Miss
        ELSE IF Contains(line, "/amber_ndk") THEN Hit("amber_ndk")
        ELSE IF cpp.matched THEN Hit(cpp.group)
        ELSE IF c.matched THEN Hit(c.group)
        ELSE Miss

\* The body of the "#00 pc" loop for the first line that holds "#00 pc" (the
\* loop skips the lines without it and ends with "break" after that line).
AndroidFrameRule(log) ==
    LET lines == split(log)
        I     == {i \in 1..Len(lines) : find(lines[i], "#00 pc") # -1}
        first == lines[SetMin(I)]
        line  == Slice(first, find(first, "#00 pc") + 1, Len(first))
        cpp   == PATTERN_CPP_FUNCTION(line)
        c     == PATTERN_C_FUNCTION(line)
    IN  IF ~Contains(log, "#00 pc") THEN Miss
        ELSE IF Contains(line, "/amber_ndk") THEN Hit("amber_ndk")
        ELSE IF cpp.matched THEN Hit(cpp.group)
        ELSE IF c.matched THEN Hit(c.group)
        ELSE Miss

\* Mutant of CatchsegvRule: the length is not reduced.
CatchsegvRule_NoTruncation(log) ==
    LET m == PATTERN_CATCHSEGV_STACK_FRAME(log)
    IN  IF Contains(log, "Backtrace:") /\ m.matched
        THEN Hit(ReplaceNonWord(m.group))
        ELSE Miss

CatchsegvRule(log) ==
    LET m == PATTERN_CATCHSEGV_STACK_FRAME(log)
    IN  IF Contains(log, "Backtrace:") /\ m.matched
        THEN Hit(Truncate(ReplaceNonWord(m.group), CATCHSEGV_SIGNATURE_LENGTH))
        ELSE Miss

\* The rules after the fixed-string ones, in the order of the function.
ExtractionRules(log) ==
    LET spirv_opt == SpirvOptRule(log)
        amber     == AmberRule(log)
        glslang   == GlslangRule(log)
        android   == AndroidFrameRule(log)
    IN  IF spirv_opt.hit THEN spirv_opt
        ELSE IF amber.hit THEN amber
        ELSE IF glslang.hit THEN glslang
        ELSE IF android.hit THEN android
        ELSE CatchsegvRule(log)

get_signature_from_log_contents(log) ==
    LET fixed     == FixedStringRules(log)
        extracted == ExtractionRules(log)
    IN  IF fixed.hit THEN fixed.sig
        ELSE IF extracted.hit THEN extracted.sig
        ELSE "no_signature"

(***************************************************************************)
(* The log texts the classifier is applied to: every concatenation of at   *)
(* most MaxPieces pieces of LogPieces.                                     *)
(***************************************************************************)
MaxPieces == 2

LogPieces ==
    { "Shader compilation failed",
      "Failed to link shaders",
      "Calling vkCreateGraphicsPipelines Fail",
      "Resource deadlock would occur",
      "error: line 0: ",
      "error: line 0: Module contains unreachable blocks",
      "\nerror: line 7: Loop 3 isn't \"well-formed\"; fix",
      "123",
      "\n",
      "test.amber: 256: probe ssbo format does not match buffer format",
      "\nSummary: 0 pass, 1 fail",
      "SPIR-V is not generated for failed compile or link",
      "ERROR: shader.frag:549: 'variable indexing fragment shader output array' : not supported",
      "#00 pc 0000x /lib.so ((anonymous namespace)::Foo::Bar(int)+12)",
      "#00 pc 0001f /system/lib/libc.so (abort+63)",
      "#00 pc 0002a /data/local/tmp",
      "#00 pc 0003c /vendor/lib64/hw/vulkan.so (QglCompiler::CompileGraphicsPipelineShaderStagesAndLinkProgramObjects(void*)+88)",
      "\n#01 pc 0004d /lib.so (main+4)",
      "\n#00 pc 0005e /lib.so (raise+8)",
      "amber::Executor::Execute() ",
      "/amber_ndk",
      "Backtrace:",
      "Backtrace:\n/path/spirv-opt(_ZN8spvtools3opt21StructuredCFGAnalysisXYZ+0x5)",
      "é" }

RECURSIVE LogTexts(_)
LogTexts(n) ==
    IF n = 0 THEN {""}
    ELSE LET T == LogTexts(n - 1) IN T \cup {t \o p : t \in T, p \in LogPieces}

(***************************************************************************)
(* Each specification runs one component; the variables of the others keep *)
(* these values.                                                           *)
(***************************************************************************)
NoCall ==
    [op |-> "none", manager |-> 0, name |-> "", binary |-> <<>>,
     outcome |-> "none", path |-> "", cache_hit |-> FALSE, scanned |-> 0,
     recipe_call |-> ""]

SigIdle ==
    /\ log_contents = ""
    /\ signature = ""
    /\ sig_pc = "idle"

BinIdle ==
    /\ managers = <<>>
    /\ resolved_paths = <<>>
    /\ binary_artifacts = <<>>
    /\ materialized = {}
    /\ catalog_scans = 0
    /\ last = NoCall

NoExit == [how |-> "none", exception |-> ""]

\* add_amber_tests_to_cts is not running.
NoCts == [file |-> "", lines |-> <<>>, amber_test_name |-> "", runs |-> 0,
          original |-> <<>>, first |-> <<>>]

\* main's loop is not running: no references, no names, no directories.
\* stream is what the random module will give after random.seed(0); twin
\* holds the choices of a second run of main started on the same donors and
\* devices.
NoIteration ==
    [references |-> <<>>, test_name |-> "", reference |-> "", seed |-> 0,
     temp |-> {}, test_dirs |-> <<>>, stream |-> <<>>,
     twin |-> [test_name |-> "", reference |-> "", seed |-> 0,
               stream |-> <<>>]]

FuzzIdle ==
    /\ active_devices = <<>>
    /\ tool_outcomes = <<>>
    /\ result_dirs = <<>>
    /\ streams = <<>>
    /\ calls = <<>>
    /\ reports = <<>>
    /\ report_paths = <<>>
    /\ exit = NoExit
    /\ pc = [at |-> "idle", device |-> 0]
    /\ iteration = NoIteration

(***************************************************************************)
(* The classifier's specification: one call on one log text.               *)
(***************************************************************************)
InitSig ==
    /\ cts = NoCts
    /\ log_contents \in LogTexts(MaxPieces)
    /\ signature = ""
    /\ sig_pc = "start"
    /\ BinIdle
    /\ FuzzIdle

Classify ==
    /\ sig_pc = "start"
    /\ signature' = get_signature_from_log_contents(log_contents)
    /\ sig_pc' = "returned"
    /\ UNCHANGED <<log_contents, binVars, fuzzVars, cts>>

NextSig == Classify

SpecSig == InitSig /\ [][NextSig]_vars

(***************************************************************************)
(* Claims about get_signature_from_log_contents, under SpecSig.            *)
(***************************************************************************)
Returned == sig_pc = "returned"

HasFixedTrigger(log) ==
    \/ Contains(log, "Shader compilation failed")
    \/ Contains(log, "Failed to link shaders")
    \/ Contains(log, "Calling vkCreateGraphicsPipelines Fail")
    \/ Contains(log, "Resource deadlock would occur")

HasExtractionTrigger(log) ==
    \/ Contains(log, "error: line ")
    \/ Contains(log, "0 pass, 1 fail")
    \/ Contains(log, "SPIR-V is not generated for failed compile or link")
    \/ Contains(log, "#00 pc")
    \/ Contains(log, "Backtrace:")

\* C1: for every log text the returned signature has at most 50 characters,
\* whichever rule of the cascade produced it.
C1_SignatureAtMost50 == Returned => Len(signature) <= 50

\* C2: for every log text the returned signature is nonempty, also when the
\* message a rule extracts consists only of digits, which are then stripped.
C2_SignatureNonempty == Returned => signature # ""

\* C3: every character of the returned signature is an ASCII letter, an
\* ASCII digit or "_".
C3_SignatureAsciiIdentifier ==
    Returned =>
        \A i \in 1..Len(signature) :
            CharAt(signature, i) \in AsciiLetters \cup AsciiDigits \cup {"_"}

\* C4: the rules are tried in the fixed order 1-10 and the first that fires
\* gives the result: the fixed-string rules 1-4 win in their order over each
\* other and over every extraction rule, the extraction rules 5-9 follow in
\* their order, and a log without any trigger gives no_signature.
C4_RulesInFixedOrder ==
    Returned =>
        LET log == log_contents
            t1  == Contains(log, "Shader compilation failed")
            t2  == Contains(log, "Failed to link shaders")
            t3  == Contains(log, "Calling vkCreateGraphicsPipelines Fail")
            t4  == Contains(log, "Resource deadlock would occur")
            r5  == SpirvOptRule(log)
            r6  == AmberRule(log)
            r7  == GlslangRule(log)
            r8  == AndroidFrameRule(log)
            r9  == CatchsegvRule(log)
        IN  /\ t1 => signature = "compile_error"
            /\ ~t1 /\ t2 => signature = "link_error"
            /\ ~t1 /\ ~t2 /\ t3 => signature = "pipeline_failure"
            /\ ~t1 /\ ~t2 /\ ~t3 /\ t4
                   => signature = "Resource_deadlock_would_occur"
            /\ ~HasFixedTrigger(log) =>
                   /\ r5.hit => signature = r5.sig
                   /\ ~r5.hit /\ r6.hit => signature = r6.sig
                   /\ ~r5.hit /\ ~r6.hit /\ r7.hit => signature = r7.sig
                   /\ ~r5.hit /\ ~r6.hit /\ ~r7.hit /\ r8.hit
                          => signature = r8.sig
                   /\ ~r5.hit /\ ~r6.hit /\ ~r7.hit /\ ~r8.hit /\ r9.hit
                          => signature = r9.sig
            /\ ~HasFixedTrigger(log) /\ ~HasExtractionTrigger(log)
                   => signature = "no_signature"
            /\ log = "" => signature = "no_signature"

\* A log with the triggers of rules 1 and 2 was classified, and so was a log
\* with the trigger of rule 4 and a line that extraction rule 8 matches.
C4_Witness ==
    /\ Returned
    /\ log_contents = "Failed to link shaders" \o "Shader compilation failed"
    /\ signature = "compile_error"

C4_WitnessFixedOverExtraction ==
    /\ Returned
    /\ Contains(log_contents, "Resource deadlock would occur")
    /\ AndroidFrameRule(log_contents).hit
    /\ signature = "Resource_deadlock_would_occur"

CatchsegvExampleLog ==
    "Backtrace:\n/path/spirv-opt(_ZN8spvtools3opt21StructuredCFGAnalysisXYZ+0x5)"

\* C5 (as stated): the catchsegv example log gives exactly
\* spirv_opt__ZN8spvtools3opt21StructuredCF.
C5_AsClaimed ==
    Returned /\ log_contents = CatchsegvExampleLog
        => signature = "spirv_opt__ZN8spvtools3opt21StructuredCF"

\* C5 (amended): the catchsegv example log gives the first
\* library(symbol text before "+", with every non-word character replaced by
\* "_", cut to its first 50 characters:
\* spirv_opt__ZN8spvtools3opt21StructuredCFGAnalysisX.
C5_CatchsegvExample ==
    Returned /\ log_contents = CatchsegvExampleLog
        => /\ signature = "spirv_opt__ZN8spvtools3opt21StructuredCFGAnalysisX"
           /\ Len(signature) = 50

C5_Witness == Returned /\ log_contents = CatchsegvExampleLog

(***************************************************************************)
(* C6 and C7 are stated on the log text itself, without the operators that *)
(* model the function: lines are the newline-free stretches of the log,    *)
(* and a pattern's match is described by its indices.                      *)
(***************************************************************************)
\* The 1-based indices at which a line of the log starts (a line may be empty).
LineStarts(log) ==
    {1} \cup {i + 1 : i \in {k \in 1..Len(log) : CharAt(log, k) = "\n"}}

\* The line of the log that starts at index a.
LineFrom(log, a) ==
    LET e == CHOOSE j \in (a - 1)..Len(log) :
                 /\ j = Len(log) \/ CharAt(log, j + 1) = "\n"
                 /\ \A k \in a..j : CharAt(log, k) # "\n"
    IN  Slice(log, a, e)

\* L is "error: line <digits>: <msg>" with the digits ending at index n and a
\* nonempty msg of the characters [\w .'\-"].
IsSpirvOptErrorLine(L, n) ==
    /\ Slice(L, 1, 12) = "error: line "
    /\ n >= 13
    /\ \A k \in 13..n : IsDigit(CharAt(L, k))
    /\ Slice(L, n + 1, n + 2) = ": "
    /\ n + 3 <= Len(L)
    /\ IsSpirvOptMsgChar(CharAt(L, n + 3))

\* The msg of such a line: the longest stretch of message characters after ": ".
SpirvOptErrorMsg(L) ==
    LET n == CHOOSE m \in 13..Len(L) : IsSpirvOptErrorLine(L, m)
        e == CHOOSE j \in (n + 3)..Len(L) :
                 /\ j = Len(L) \/ ~IsSpirvOptMsgChar(CharAt(L, j + 1))
                 /\ \A k \in (n + 3)..j : IsSpirvOptMsgChar(CharAt(L, k))
    IN  Slice(L, n + 3, e)

\* sig is msg with its digits removed, every other non-word character
\* replaced by "_", cut to its first n characters.
IsNormalizedPrefix(sig, msg, n) ==
    LET kept    == {k \in 1..Len(msg) : ~IsDigit(CharAt(msg, k))}
        rank(k) == Cardinality({m \in kept : m < k}) + 1
    IN  /\ Len(sig) = (IF Cardinality(kept) < n THEN Cardinality(kept) ELSE n)
        /\ \A k \in kept :
               rank(k) <= n =>
                   CharAt(sig, rank(k)) =
                       (IF IsWord(CharAt(msg, k)) THEN CharAt(msg, k) ELSE "_")

\* C6: when rules 1-4 do not fire and the log contains "error: line ", the
\* signature comes from the first line that starts with
\* "error: line <digits>: <msg>": msg without its digits, every remaining
\* non-word character replaced by "_", cut to the first 20 characters; so
\* "error: line 0: Module contains unreachable blocks" gives
\* Module_contains_unre.
C6_SpirvOptSignature ==
    Returned /\ ~HasFixedTrigger(log_contents)
             /\ Contains(log_contents, "error: line ") =>
        LET log == log_contents
            A   == {a \in LineStarts(log) :
                       LET L == LineFrom(log, a)
                       IN  \E n \in 13..Len(L) : IsSpirvOptErrorLine(L, n)}
        IN  /\ A # {} =>
                   IsNormalizedPrefix(signature,
                       SpirvOptErrorMsg(LineFrom(log, SetMin(A))), 20)
            /\ log = "error: line 0: Module contains unreachable blocks"
                   => signature = "Module_contains_unre"

\* Two lines match; the first one's message is taken and cut to 20 characters.
C6_Witness ==
    /\ Returned
    /\ log_contents = "error: line 0: Module contains unreachable blocks"
                        \o "\nerror: line 7: Loop 3 isn't \"well-formed\"; fix"
    /\ signature = "Module_contains_unre"

\* A message with a digit, an apostrophe, quotes and a hyphen was normalized.
C6_WitnessNormalized ==
    /\ Returned
    /\ log_contents = "\nerror: line 7: Loop 3 isn't \"well-formed\"; fix"
    /\ signature = "Loop__isn_t__well_fo"

\* The text rule 8 examines: from the first "#00 pc" of the log to the end of
\* its line.
AndroidFrameText(log) ==
    LET a == find(log, "#00 pc") + 1
        e == CHOOSE j \in a..Len(log) :
                 /\ j = Len(log) \/ CharAt(log, j + 1) = "\n"
                 /\ \A k \in a..j : CharAt(log, k) # "\n"
    IN  Slice(log, a, e)

\* T holds "::Name(" at index i, Name ending at index j.
IsCppFunctionAt(T, i, j) ==
    /\ Slice(T, i, i + 1) = "::"
    /\ j >= i + 2
    /\ \A k \in (i + 2)..j : IsWord(CharAt(T, k))
    /\ CharAt(T, j + 1) = "("

\* T holds "(name+digits)" or "(name(" at index i, name ending at index j.
IsCFunctionAt(T, i, j) ==
    /\ CharAt(T, i) = "("
    /\ j >= i + 1
    /\ \A k \in (i + 1)..j : IsWord(CharAt(T, k))
    /\ \/ CharAt(T, j + 1) = "("
       \/ /\ CharAt(T, j + 1) = "+"
          /\ \E d \in (j + 2)..Len(T) :
                 /\ \A k \in (j + 2)..d : IsDigit(CharAt(T, k))
                 /\ CharAt(T, d + 1) = ")"

AndroidExampleLog ==
    "#00 pc 0000x /lib.so ((anonymous namespace)::Foo::Bar(int)+12)"

\* C7: when rules 1-7 do not fire and the log contains "#00 pc", only the
\* first line with "#00 pc" is examined, from "#00 pc" onward: "/amber_ndk"
\* gives amber_ndk, else the first "::Name(" gives Name, else the first
\* "(name+digits)" or "(name(" gives name; the example frame gives Bar.
C7_AndroidFrameSignature ==
    Returned /\ ~HasFixedTrigger(log_contents)
             /\ ~SpirvOptRule(log_contents).hit
             /\ ~AmberRule(log_contents).hit
             /\ ~GlslangRule(log_contents).hit
             /\ Contains(log_contents, "#00 pc") =>
        LET T     == AndroidFrameText(log_contents)
            ndk   == Contains(T, "/amber_ndk")
            Cpp   == {i \in 1..Len(T) : \E j \in i..Len(T) : IsCppFunctionAt(T, i, j)}
            C     == {i \in 1..Len(T) : \E j \in i..Len(T) : IsCFunctionAt(T, i, j)}
            cppI  == SetMin(Cpp)
            cI    == SetMin(C)
        IN  /\ ndk => signature = "amber_ndk"
            /\ ~ndk /\ Cpp # {} =>
                   \E j \in cppI..Len(T) :
                       IsCppFunctionAt(T, cppI, j) /\ signature = Slice(T, cppI + 2, j)
            /\ ~ndk /\ Cpp = {} /\ C # {} =>
                   \E j \in cI..Len(T) :
                       IsCFunctionAt(T, cI, j) /\ signature = Slice(T, cI + 1, j)
            /\ log_contents = AndroidExampleLog => signature = "Bar"

\* The frame holds a C-style "(abort+63)" before a "::Bar(": the C++ sub-rule
\* is tried first; and text before "#00 pc" on the line is not examined.
C7_Witness ==
    /\ Returned
    /\ log_contents = "#00 pc 0001f /system/lib/libc.so (abort+63)"
                        \o AndroidExampleLog
    /\ signature = "Bar"

C7_WitnessTrimmed ==
    /\ Returned
    /\ log_contents = "amber::Executor::Execute() "
                        \o "#00 pc 0001f /system/lib/libc.so (abort+63)"
    /\ signature = "abort"

\* C29: when the trigger of an extraction rule (5-9) is in the log but the
\* rule's pattern matches nothing, the rule returns nothing: the result is
\* that of the first rule, in order, whose trigger is present and whose
\* pattern matches, and no_signature when there is none.  Rule 8 matches
\* only on the first line that holds "#00 pc", from "#00 pc" on; a later
\* "#00 pc" line is not tried.
C29_NoMatchFallsThrough ==
    Returned /\ ~HasFixedTrigger(log_contents) =>
        LET log   == log_contents
            lines == split(log)
            T     == AndroidFrameText(log)
            y5    == /\ Contains(log, "error: line ")
                     /\ \E i \in 1..Len(lines) :
                            PATTERN_SPIRV_OPT_ERROR(lines[i]).matched
            y6    == /\ Contains(log, "0 pass, 1 fail")
                     /\ \E i \in 1..Len(lines) :
                            PATTERN_AMBER_ERROR(lines[i]).matched
            y7    == /\ Contains(log,
                          "SPIR-V is not generated for failed compile or link")
                     /\ \E i \in 1..Len(lines) :
                            PATTERN_GLSLANG_ERROR(lines[i]).matched
            y8    == /\ Contains(log, "#00 pc")
                     /\ \/ Contains(T, "/amber_ndk")
                        \/ PATTERN_CPP_FUNCTION(T).matched
                        \/ PATTERN_C_FUNCTION(T).matched
            y9    == /\ Contains(log, "Backtrace:")
                     /\ PATTERN_CATCHSEGV_STACK_FRAME(log).matched
        IN  signature = IF y5 THEN SpirvOptRule(log).sig
                        ELSE IF y6 THEN AmberRule(log).sig
                        ELSE IF y7 THEN GlslangRule(log).sig
                        ELSE IF y8 THEN AndroidFrameRule(log).sig
                        ELSE IF y9 THEN CatchsegvRule(log).sig
                        ELSE "no_signature"

\* The first "#00 pc" line names no function and the second one does: the
\* second is not tried, and no later rule has its trigger.
C29_Witness ==
    /\ Returned
    /\ log_contents = "#00 pc 0002a /data/local/tmp"
                        \o "\n#00 pc 0005e /lib.so (raise+8)"
    /\ signature = "no_signature"

\* The trigger of rule 6 without a line that its pattern matches, and a
\* frame for rule 8: rule 8 gives the result.
C29_WitnessLaterRule ==
    /\ Returned
    /\ log_contents = "\nSummary: 0 pass, 1 fail"
                        \o "#00 pc 0001f /system/lib/libc.so (abort+63)"
    /\ signature = "abort"

(***************************************************************************)
(* BinaryManager (binaries_util.py).                                       *)
(***************************************************************************)
\* The Binary message: name, tags, path, version.
Binary(n, t, p, v) == [name |-> n, tags |-> t, path |-> p, version |-> v]

\* set(tags)
SeqToSet(q) == {q[i] : i \in 1..Len(q)}

\* binary.SerializePartialToString(): the values of the message's fields in
\* field order; the tags keep their order.
SerializePartialToString(binary) ==
    <<binary.name, binary.tags, binary.path, binary.version>>

\* artifact_util.artifact_get_inner_file_path(inner_path, artifact_path)
artifact_get_inner_file_path(inner_path, artifact_path) ==
    artifact_path \o "/" \o inner_path

\* artifact_util.artifact_execute_recipe_if_needed(artifact_path): the
\* recipe runs unless the artifact's marker is there; the artifacts
\* materialized afterwards.
artifact_execute_recipe_if_needed(artifact_path, done) ==
    done \cup {artifact_path}

\* dict[key] = value
DictPut(dict, key, value) ==
    [k \in (DOMAIN dict) \cup {key} |-> IF k = key THEN value ELSE dict[k]]

\* Mutant of ScanCatalog: the version test is left out.
RECURSIVE ScanCatalog_NoVersionTest(_, _, _, _, _)
ScanCatalog_NoVersionTest(artifacts, binary, binary_tags, a, b) ==
    IF a > Len(artifacts)
    THEN [found |-> FALSE, a |-> 0, b |-> 0, scanned |-> 0]
    ELSE IF b > Len(artifacts[a].binaries)
         THEN ScanCatalog_NoVersionTest(artifacts, binary, binary_tags, a + 1, 1)
    ELSE LET artifact_binary == artifacts[a].binaries[b]
             next == ScanCatalog_NoVersionTest(artifacts, binary, binary_tags,
                                               a, b + 1)
             continue == [next EXCEPT !.scanned = @ + 1]
         IN  IF artifact_binary.name # binary.name THEN continue
             ELSE IF ~(binary_tags \subseteq SeqToSet(artifact_binary.tags))
                  THEN continue
             ELSE [found |-> TRUE, a |-> a, b |-> b, scanned |-> 1]

NotFoundInCatalog == [found |-> FALSE, a |-> 0, b |-> 0, scanned |-> 0]

\* The nested loops of get_binary_path over the catalog, from binary b of
\* artifact a on: the place of the first binary that passes the three tests,
\* and how many binaries were examined.
RECURSIVE ScanCatalog(_, _, _, _, _)
ScanCatalog(artifacts, binary, binary_tags, a, b) ==
    IF a > Len(artifacts) THEN NotFoundInCatalog
    ELSE IF b > Len(artifacts[a].binaries)
         THEN ScanCatalog(artifacts, binary, binary_tags, a + 1, 1)
    ELSE LET artifact_binary == artifacts[a].binaries[b]
             next == ScanCatalog(artifacts, binary, binary_tags, a, b + 1)
             continue == [next EXCEPT !.scanned = @ + 1]
         IN  IF artifact_binary.name # binary.name THEN continue
             ELSE IF artifact_binary.version # binary.version THEN continue
             ELSE IF ~(binary_tags \subseteq SeqToSet(artifact_binary.tags))
                  THEN continue
             ELSE [found |-> TRUE, a |-> a, b |-> b, scanned |-> 1]

\* Mutant of get_binary_path: the path found is not put in the dict.
get_binary_path_NoStore(m, binary) ==
    LET self        == managers[m]
        dict        == resolved_paths[self.resolved_paths]
        key         == SerializePartialToString(binary)
        binary_tags == SeqToSet(binary.tags) \cup {self.platform}
        artifacts   == binary_artifacts[self.binary_artifacts]
        scan        == ScanCatalog(artifacts, binary, binary_tags, 1, 1)
        artifact    == artifacts[scan.a]
        result      == artifact_get_inner_file_path(
                           artifact.binaries[scan.b].path, artifact.artifact_path)
    IN  IF key \in DOMAIN dict
        THEN [outcome |-> "path", path |-> dict[key], cache_hit |-> TRUE,
              scanned |-> 0, recipe_call |-> "",
              dict |-> dict, materialized |-> materialized]
        ELSE IF scan.found
        THEN [outcome |-> "path", path |-> result, cache_hit |-> FALSE,
              scanned |-> scan.scanned, recipe_call |-> artifact.artifact_path,
              dict |-> dict,
              materialized |-> artifact_execute_recipe_if_needed(
                                   artifact.artifact_path, materialized)]
        ELSE [outcome |-> "BinaryPathNotFound", path |-> "", cache_hit |-> FALSE,
              scanned |-> scan.scanned, recipe_call |-> "",
              dict |-> dict, materialized |-> materialized]

\* BinaryManager.get_binary_path(binary) on manager m: what it returns or
\* raises, and the dict object and the materialized artifacts afterwards.
get_binary_path(m, binary) ==
    LET self        == managers[m]
        dict        == resolved_paths[self.resolved_paths]
        key         == SerializePartialToString(binary)
        binary_tags == SeqToSet(binary.tags) \cup {self.platform}
        artifacts   == binary_artifacts[self.binary_artifacts]
        scan        == ScanCatalog(artifacts, binary, binary_tags, 1, 1)
        artifact    == artifacts[scan.a]
        result      == artifact_get_inner_file_path(
                           artifact.binaries[scan.b].path, artifact.artifact_path)
    IN  IF key \in DOMAIN dict
        THEN [outcome |-> "path", path |-> dict[key], cache_hit |-> TRUE,
              scanned |-> 0, recipe_call |-> "",
              dict |-> dict, materialized |-> materialized]
        ELSE IF scan.found
        THEN [outcome |-> "path", path |-> result, cache_hit |-> FALSE,
              scanned |-> scan.scanned, recipe_call |-> artifact.artifact_path,
              dict |-> DictPut(dict, key, result),
              materialized |-> artifact_execute_recipe_if_needed(
                                   artifact.artifact_path, materialized)]
        ELSE [outcome |-> "BinaryPathNotFound", path |-> "", cache_hit |-> FALSE,
              scanned |-> scan.scanned, recipe_call |-> "",
              dict |-> dict, materialized |-> materialized]

\* Mutant of get_binary_by_name_from_list: the loop does not return at the
\* first binary with the name, so that the last one is selected.
get_binary_by_name_from_list_Last(name, binary_list) ==
    LET I == {i \in 1..Len(binary_list) : binary_list[i].name = name}
    IN  IF I = {} THEN [found |-> FALSE, binary |-> <<>>]
        ELSE [found |-> TRUE, binary |-> binary_list[SetMax(I)]]

\* Mutant of get_binary_by_name_from_list: a list without the name gives its
\* first binary instead of raising BinaryNotFound.
get_binary_by_name_from_list_Fallback(name, binary_list) ==
    LET I == {i \in 1..Len(binary_list) : binary_list[i].name = name}
    IN  IF binary_list = <<>> THEN [found |-> FALSE, binary |-> <<>>]
        ELSE IF I = {} THEN [found |-> TRUE, binary |-> binary_list[1]]
        ELSE [found |-> TRUE, binary |-> binary_list[SetMin(I)]]

\* BinaryManager.get_binary_by_name_from_list(name, binary_list): the first
\* binary of the list with that name; found is FALSE where the code raises
\* BinaryNotFound.
get_binary_by_name_from_list(name, binary_list) ==
    LET I == {i \in 1..Len(binary_list) : binary_list[i].name = name}
    IN  IF I = {} THEN [found |-> FALSE, binary |-> <<>>]
        ELSE [found |-> TRUE, binary |-> binary_list[SetMin(I)]]

\* BinaryManager.get_binary_by_name(name)
get_binary_by_name(m, name) ==
    get_binary_by_name_from_list(name, managers[m].binary_list)

(***************************************************************************)
(* The inputs of the BinaryManager specification.                          *)
(***************************************************************************)
MaxOverrides == 2

MaxManagers == 2

Platforms == {"Linux", "Mac"}

ToolNames == {"spirv-opt", "glslangValidator", "spirv-val"}

\* The descriptors that tests, devices and callers put in override lists.
OverrideBinaries ==
    { Binary("spirv-opt", <<"Release">>, "", "V1"),
      Binary("spirv-opt", <<"Release">>, "", "V2"),
      Binary("spirv-opt", <<"Debug">>, "", "V1"),
      Binary("spirv-opt", <<"Release", "no-validate-after-all">>, "", "V1"),
      Binary("glslangValidator", <<>>, "", "V1") }

\* Artifacts in the shape of the built-in recipes: one archive set per
\* project, version and platform suffix, and the graphicsfuzz archive set
\* that holds the binaries of every platform.
ArtifactSpirvToolsV1LinuxRelease ==
    [artifact_path |-> "//binaries/SPIRV-Tools_V1_Linux_x64_Release",
     binaries |-> <<
        Binary("spirv-val", <<"Linux", "Release", "x64">>, "SPIRV-Tools/bin/spirv-val", "V1"),
        Binary("spirv-opt", <<"Linux", "Release", "x64">>, "SPIRV-Tools/bin/spirv-opt", "V1") >>]

ArtifactSpirvToolsV2LinuxRelease ==
    [artifact_path |-> "//binaries/SPIRV-Tools_V2_Linux_x64_Release",
     binaries |-> <<
        Binary("spirv-val", <<"Linux", "Release", "x64">>, "SPIRV-Tools/bin/spirv-val", "V2"),
        Binary("spirv-opt", <<"Linux", "Release", "x64">>, "SPIRV-Tools/bin/spirv-opt", "V2") >>]

ArtifactSpirvToolsV1MacDebug ==
    [artifact_path |-> "//binaries/SPIRV-Tools_V1_Mac_x64_Debug",
     binaries |-> <<
        Binary("spirv-opt", <<"Mac", "Debug", "x64">>, "SPIRV-Tools/bin/spirv-opt", "V1") >>]

ArtifactGraphicsFuzz ==
    [artifact_path |-> "//binaries/graphicsfuzz_v1.2.1",
     binaries |-> <<
        Binary("glslangValidator", <<"Linux", "x64", "Release">>,
               "graphicsfuzz/bin/Linux/glslangValidator", "V1"),
        Binary("spirv-opt", <<"Linux", "x64", "Release", "no-validate-after-all">>,
               "graphicsfuzz/bin/Linux/spirv-opt", "V1"),
        Binary("spirv-opt", <<"Mac", "x64", "Release", "no-validate-after-all">>,
               "graphicsfuzz/bin/Mac/spirv-opt", "V1") >>]

\* The catalogs binary_artifacts_find may give the root manager.
Catalogs ==
    { <<ArtifactSpirvToolsV1LinuxRelease, ArtifactSpirvToolsV2LinuxRelease,
        ArtifactGraphicsFuzz>>,
      <<ArtifactGraphicsFuzz, ArtifactSpirvToolsV1MacDebug,
        ArtifactSpirvToolsV1LinuxRelease>> }

\* The lists of at most n override binaries.
RECURSIVE OverrideLists(_)
OverrideLists(n) ==
    IF n = 0 THEN {<<>>}
    ELSE LET S == OverrideLists(n - 1)
         IN  S \cup {Append(l, b) : l \in S, b \in OverrideBinaries}

(***************************************************************************)
(* The BinaryManager specification: a manager is constructed (its catalog  *)
(* found once) and then asked for binaries, by name or by descriptor, in   *)
(* any order.  SpecBinTree adds get_child_binary_manager: there the        *)
(* manager and its descendants are called in any order.                    *)
(***************************************************************************)
InitBin ==
    /\ cts = NoCts
    /\ SigIdle
    /\ FuzzIdle
    /\ \E binary_list \in OverrideLists(MaxOverrides), pl \in Platforms :
           managers = << [binary_list |-> binary_list, platform |-> pl,
                          resolved_paths |-> 1, binary_artifacts |-> 1] >>
    /\ resolved_paths = << <<>> >>
    /\ binary_artifacts \in {<<c>> : c \in Catalogs}
    /\ materialized = {}
    /\ catalog_scans = 1
    /\ last = NoCall

\* manager m's get_binary_path_by_name(name)
GetBinaryPathByName(m, name) ==
    \E selected \in {get_binary_by_name(m, name)} :
        IF ~selected.found
        THEN /\ last' = [op |-> "get_binary_path_by_name", manager |-> m,
                         name |-> name, binary |-> <<>>,
                         outcome |-> "BinaryNotFound", path |-> "",
                         cache_hit |-> FALSE, scanned |-> 0, recipe_call |-> ""]
             /\ UNCHANGED <<managers, resolved_paths, binary_artifacts,
                            materialized, catalog_scans, sigVars, fuzzVars, cts>>
        ELSE \E r \in {get_binary_path(m, selected.binary)} :
             /\ last' = [op |-> "get_binary_path_by_name", manager |-> m,
                         name |-> name, binary |-> selected.binary,
                         outcome |-> r.outcome, path |-> r.path,
                         cache_hit |-> r.cache_hit, scanned |-> r.scanned,
                         recipe_call |-> r.recipe_call]
             /\ resolved_paths' =
                    [resolved_paths EXCEPT ![managers[m].resolved_paths] = r.dict]
             /\ materialized' = r.materialized
             /\ UNCHANGED <<managers, binary_artifacts, catalog_scans, sigVars, fuzzVars, cts>>

\* manager m's get_binary_path(binary)
GetBinaryPath(m, binary) ==
    \E r \in {get_binary_path(m, binary)} :
        /\ last' = [op |-> "get_binary_path", manager |-> m, name |-> "",
                    binary |-> binary, outcome |-> r.outcome, path |-> r.path,
                    cache_hit |-> r.cache_hit, scanned |-> r.scanned,
                    recipe_call |-> r.recipe_call]
        /\ resolved_paths' =
               [resolved_paths EXCEPT ![managers[m].resolved_paths] = r.dict]
        /\ materialized' = r.materialized
        /\ UNCHANGED <<managers, binary_artifacts, catalog_scans, sigVars, fuzzVars, cts>>

\* Mutant of get_child_binary_manager: the parent's list comes first.
get_child_binary_manager_ParentFirst(m, binary_list) ==
    [binary_list      |-> managers[m].binary_list \o binary_list,
     platform         |-> managers[m].platform,
     resolved_paths   |-> managers[m].resolved_paths,
     binary_artifacts |-> managers[m].binary_artifacts,
     parent           |-> m,
     extra            |-> binary_list]

\* Mutant of get_child_binary_manager: the child keeps the dict that
\* __init__ gave it.
get_child_binary_manager_OwnCache(m, binary_list) ==
    [binary_list      |-> binary_list \o managers[m].binary_list,
     platform         |-> managers[m].platform,
     resolved_paths   |-> Len(resolved_paths) + 1,
     binary_artifacts |-> managers[m].binary_artifacts,
     parent           |-> m,
     extra            |-> binary_list]

\* BinaryManager.get_child_binary_manager(binary_list) on manager m: the
\* child is constructed with binary_artifacts_prefix=None, so that
\* binary_artifacts_find does not run, and is then given the parent's dict and
\* catalog objects.
\* The fields parent and extra are not fields of the object: they keep the
\* call that made the manager, for the properties that speak of it.
get_child_binary_manager(m, binary_list) ==
    [binary_list      |-> binary_list \o managers[m].binary_list,
     platform         |-> managers[m].platform,
     resolved_paths   |-> managers[m].resolved_paths,
     binary_artifacts |-> managers[m].binary_artifacts,
     parent           |-> m,
     extra            |-> binary_list]

\* The child's __init__ makes a new dict and, as binary_artifacts_prefix is
\* None, does not call binary_artifacts_find; the dict stays on the heap only
\* if the child still refers to it when get_child_binary_manager returns.
GetChildBinaryManager(m, binary_list) ==
    /\ Len(managers) < MaxManagers
    /\ \E child \in {get_child_binary_manager(m, binary_list)} :
           /\ managers' = Append(managers, child)
           /\ resolved_paths' =
                  IF child.resolved_paths > Len(resolved_paths)
                  THEN Append(resolved_paths, <<>>)
                  ELSE resolved_paths
    /\ last' = [NoCall EXCEPT !.op = "get_child_binary_manager",
                              !.manager = m, !.outcome = "manager"]
    /\ UNCHANGED <<binary_artifacts, materialized, catalog_scans, sigVars, fuzzVars, cts>>

NextBin ==
    \/ \E m \in 1..Len(managers), name \in ToolNames :
           GetBinaryPathByName(m, name)
    \/ \E m \in 1..Len(managers), binary \in OverrideBinaries :
           GetBinaryPath(m, binary)

SpecBin == InitBin /\ [][NextBin]_vars

\* SpecBinTree: a root manager with at most one override, and the extra
\* lists its descendants are made with.
ChildOverrideLists ==
    { <<>>,
      << Binary("spirv-opt", <<"Release">>, "", "V2") >>,
      << Binary("glslangValidator", <<>>, "", "V1") >> }

TreeBinaries ==
    { Binary("spirv-opt", <<"Release">>, "", "V1"),
      Binary("spirv-opt", <<"Release">>, "", "V2"),
      Binary("glslangValidator", <<>>, "", "V1") }

InitBinTree ==
    /\ cts = NoCts
    /\ SigIdle
    /\ FuzzIdle
    /\ \E binary_list \in {<<>>} \cup {<<b>> : b \in TreeBinaries},
          pl \in Platforms :
           managers = << [binary_list |-> binary_list, platform |-> pl,
                          resolved_paths |-> 1, binary_artifacts |-> 1,
                          parent |-> 0, extra |-> <<>>] >>
    /\ resolved_paths = << <<>> >>
    /\ binary_artifacts \in {<<c>> : c \in Catalogs}
    /\ materialized = {}
    /\ catalog_scans = 1
    /\ last = NoCall

NextBinTree ==
    \/ \E m \in 1..Len(managers), name \in ToolNames :
           GetBinaryPathByName(m, name)
    \/ \E m \in 1..Len(managers), binary \in TreeBinaries :
           GetBinaryPath(m, binary)
    \/ \E m \in 1..Len(managers), binary_list \in ChildOverrideLists :
           GetChildBinaryManager(m, binary_list)

SpecBinTree == InitBinTree /\ [][NextBinTree]_vars

(***************************************************************************)
(* Claims about BinaryManager, under SpecBin.                              *)
(***************************************************************************)
\* The catalog that manager m scans.
CatalogOf(m) == binary_artifacts[managers[m].binary_artifacts]

\* The places <<a, b>> of the catalog binaries that descriptor D matches on
\* platform pl: equal name, equal version, and D's tags and pl among the tags.
MatchingPlaces(catalog, D, pl) ==
    {p \in UNION {{<<a, b>> : b \in 1..Len(catalog[a].binaries)} :
                      a \in 1..Len(catalog)} :
           LET B == catalog[p[1]].binaries[p[2]]
           IN  /\ B.name = D.name
               /\ B.version = D.version
               /\ \A i \in 1..Len(D.tags) :
                      \E j \in 1..Len(B.tags) : B.tags[j] = D.tags[i]
               /\ \E j \in 1..Len(B.tags) : B.tags[j] = pl}

\* The first place of P in scan order: artifacts in catalog order, and the
\* binaries of an artifact in their order.
FirstPlace(P) ==
    CHOOSE p \in P : \A q \in P : p[1] < q[1] \/ (p[1] = q[1] /\ p[2] <= q[2])

\* The path of the catalog binary at place p.
PathAt(catalog, p) ==
    artifact_get_inner_file_path(catalog[p[1]].binaries[p[2]].path,
                                 catalog[p[1]].artifact_path)

\* C8: get_binary_path_by_name(name) selects the first descriptor of the
\* manager's override list whose name is name, and the path it returns is
\* that of a catalog binary with that name and the descriptor's version,
\* whatever other versions of the tool the catalog holds.
C8_ResolveByNameFirstOverride ==
    last.op = "get_binary_path_by_name" /\ last.outcome # "BinaryNotFound" =>
        LET list == managers[last.manager].binary_list
            cat  == CatalogOf(last.manager)
        IN  /\ \E i \in 1..Len(list) :
                   /\ list[i].name = last.name
                   /\ \A j \in 1..(i - 1) : list[j].name # last.name
                   /\ last.binary = list[i]
            /\ last.outcome = "path" =>
                   \E a \in 1..Len(cat) : \E b \in 1..Len(cat[a].binaries) :
                       /\ cat[a].binaries[b].name = last.name
                       /\ cat[a].binaries[b].version = last.binary.version
                       /\ last.path = PathAt(cat, <<a, b>>)

\* The overrides name spirv-opt twice, V1 before V2, the catalog holds both
\* versions, and the V1 entry's path was returned.
C8_Witness ==
    /\ last.op = "get_binary_path_by_name"
    /\ last.name = "spirv-opt"
    /\ managers[1].binary_list = << Binary("spirv-opt", <<"Release">>, "", "V1"),
                                    Binary("spirv-opt", <<"Release">>, "", "V2") >>
    /\ managers[1].platform = "Linux"
    /\ CatalogOf(1)[1] = ArtifactSpirvToolsV1LinuxRelease
    /\ CatalogOf(1)[2] = ArtifactSpirvToolsV2LinuxRelease
    /\ last.path = PathAt(CatalogOf(1), <<1, 2>>)
    /\ last.path # PathAt(CatalogOf(1), <<2, 2>>)

\* A step is a call of get_binary_path (directly or from
\* get_binary_path_by_name) for descriptor D on manager m that finds D's
\* serialization absent from the manager's dict.
IsCacheMissCall(m, D) ==
    /\ last'.op \in {"get_binary_path", "get_binary_path_by_name"}
    /\ last'.outcome # "BinaryNotFound"
    /\ last'.manager = m
    /\ last'.binary = D
    /\ SerializePartialToString(D)
           \notin DOMAIN resolved_paths[managers[m].resolved_paths]

\* C9: on a cache miss get_binary_path(D) succeeds if and only if some
\* catalog binary has D's name and version and holds D's tags and the
\* current platform among its tags; the path returned is that of the first
\* such binary in scan order, and otherwise BinaryPathNotFound is raised.
C9_CacheMissResolution ==
    [][ \A m \in 1..Len(managers), D \in OverrideBinaries :
            IsCacheMissCall(m, D) =>
                LET P == MatchingPlaces(CatalogOf(m), D, managers[m].platform)
                IN  /\ P # {} => /\ last'.outcome = "path"
                                 /\ last'.path = PathAt(CatalogOf(m), FirstPlace(P))
                    /\ P = {} => last'.outcome = "BinaryPathNotFound"
      ]_vars

\* A descriptor that two catalog binaries match was resolved on a cache miss.
C9_Witness ==
    /\ last.op = "get_binary_path"
    /\ last.outcome = "path"
    /\ ~last.cache_hit
    /\ Cardinality(MatchingPlaces(CatalogOf(1), last.binary,
                                  managers[1].platform)) = 2

\* A descriptor that no catalog binary matches on this platform, while
\* binaries of its name and version exist for another platform.
C9_WitnessNotFound ==
    /\ last.outcome = "BinaryPathNotFound"
    /\ last.binary = Binary("spirv-opt", <<"Debug">>, "", "V1")
    /\ managers[1].platform = "Linux"

\* C10: get_binary_path_by_name(name) raises BinaryNotFound exactly when no
\* descriptor of the override list has that name, whatever the catalog
\* holds; it then examines no catalog binary, calls no recipe and leaves the
\* dict of resolved paths and the materialized artifacts as they were.
C10_BinaryNotFound ==
    [][ last'.op = "get_binary_path_by_name" =>
            LET list == managers[last'.manager].binary_list
            IN  /\ last'.outcome = "BinaryNotFound"
                       <=> \A i \in 1..Len(list) : list[i].name # last'.name
                /\ last'.outcome = "BinaryNotFound" =>
                       /\ last'.scanned = 0
                       /\ last'.recipe_call = ""
                       /\ resolved_paths' = resolved_paths
                       /\ materialized' = materialized
                       /\ managers' = managers
      ]_vars

\* BinaryNotFound was raised for a name the catalog holds, by a manager with
\* a nonempty override list and a nonempty dict of resolved paths.
C10_Witness ==
    /\ last.op = "get_binary_path_by_name"
    /\ last.outcome = "BinaryNotFound"
    /\ last.name = "spirv-val"
    /\ managers[1].binary_list # <<>>
    /\ DOMAIN resolved_paths[1] # {}
    /\ \E a \in 1..Len(CatalogOf(1)) :
           CatalogOf(1)[a].binaries[1].name = "spirv-val"

(***************************************************************************)
(* Claims about child managers, under SpecBinTree, and about repeated      *)
(* lookups.                                                                *)
(***************************************************************************)
\* The step is a lookup, by name or by descriptor.
IsLookup(call) ==
    call.op \in {"get_binary_path", "get_binary_path_by_name"}

\* C11: get_child_binary_manager(extra) gives a manager whose override list
\* is extra followed by the parent's list; a name present in extra resolves
\* in the child to extra's first descriptor of that name; and no step, the
\* creation or a lookup on any manager, changes the list or another field of
\* a manager that exists.
C11_ChildOverridesFirst ==
    [][ /\ \A i \in 1..Len(managers) : managers'[i] = managers[i]
        /\ last'.op = "get_child_binary_manager" =>
               LET child == managers'[Len(managers')]
               IN  /\ Len(managers') = Len(managers) + 1
                   /\ child.parent = last'.manager
                   /\ child.binary_list
                          = child.extra \o managers[child.parent].binary_list
        /\ last'.op = "get_binary_path_by_name" =>
               LET extra == managers[last'.manager].extra
                   I == {i \in 1..Len(extra) : extra[i].name = last'.name}
               IN  I # {} =>
                       /\ last'.outcome # "BinaryNotFound"
                       /\ \E i \in I : /\ \A j \in I : i <= j
                                       /\ last'.binary = extra[i]
      ]_vars

\* The parent's list names spirv-opt V1, the child was made with spirv-opt
\* V2 as extra, and spirv-opt resolved in the child to the V2 path.
C11_Witness ==
    /\ Len(managers) = 2
    /\ managers[1].binary_list = << Binary("spirv-opt", <<"Release">>, "", "V1") >>
    /\ managers[2].extra = << Binary("spirv-opt", <<"Release">>, "", "V2") >>
    /\ managers[2].binary_list = << Binary("spirv-opt", <<"Release">>, "", "V2"),
                                    Binary("spirv-opt", <<"Release">>, "", "V1") >>
    /\ last.op = "get_binary_path_by_name"
    /\ last.manager = 2
    /\ last.name = "spirv-opt"
    /\ last.outcome = "path"
    /\ last.binary.version = "V2"

\* C12: a manager and its descendants share one dict of resolved paths and
\* one catalog: a descriptor that any of them has resolved is returned to
\* every other from the dict, with no catalog binary examined, no recipe
\* call and the same path; and creating a child calls binary_artifacts_find
\* for no catalog.
C12_SharedCacheAndCatalog ==
    [][ /\ catalog_scans' = catalog_scans
        /\ Len(binary_artifacts') = 1
        /\ \A c \in 1..Len(managers') : managers'[c].binary_artifacts = 1
        /\ IsLookup(last') /\ last'.outcome # "BinaryNotFound" =>
               \A j \in 1..Len(managers) :
                   LET dict == resolved_paths[managers[j].resolved_paths]
                       key  == SerializePartialToString(last'.binary)
                   IN  key \in DOMAIN dict =>
                           /\ last'.outcome = "path"
                           /\ last'.path = dict[key]
                           /\ last'.cache_hit
                           /\ last'.scanned = 0
                           /\ last'.recipe_call = ""
                           /\ materialized' = materialized
      ]_vars

\* A lookup on the child was answered from the dict it shares with the
\* parent, which holds one path, for one materialized artifact.
C12_Witness ==
    /\ Len(managers) = 2
    /\ last.op = "get_binary_path"
    /\ last.manager = 2
    /\ last.cache_hit
    /\ last.outcome = "path"
    /\ Cardinality(DOMAIN resolved_paths[1]) = 1
    /\ Cardinality(materialized) = 1

\* C13: calls of get_binary_path with the same descriptor return the same
\* path every time: the first successful call examines the catalog, calls
\* the recipe and puts the path in the dict under the descriptor's
\* serialization; an entry of the dict never changes; and a call for a
\* descriptor in the dict returns the entry with no catalog binary examined
\* and no recipe call.
C13_RepeatedLookupSamePath ==
    [][ /\ \A k \in DOMAIN resolved_paths[1] :
               /\ k \in DOMAIN resolved_paths'[1]
               /\ resolved_paths'[1][k] = resolved_paths[1][k]
        /\ last'.op = "get_binary_path" =>
               LET key == SerializePartialToString(last'.binary)
               IN  /\ key \in DOMAIN resolved_paths[1] =>
                           /\ last'.outcome = "path"
                           /\ last'.path = resolved_paths[1][key]
                           /\ last'.scanned = 0
                           /\ last'.recipe_call = ""
                           /\ materialized' = materialized
                   /\ key \notin DOMAIN resolved_paths[1]
                          /\ last'.outcome = "path" =>
                           /\ last'.scanned > 0
                           /\ last'.recipe_call \in materialized'
                           /\ key \in DOMAIN resolved_paths'[1]
                           /\ resolved_paths'[1][key] = last'.path
      ]_vars

\* The same descriptor was looked up again and answered from the dict.
C13_Witness ==
    /\ last.op = "get_binary_path"
    /\ last.outcome = "path"
    /\ last.cache_hit
    /\ last.scanned = 0
    /\ resolved_paths[1][SerializePartialToString(last.binary)] = last.path
    /\ materialized # {}

(***************************************************************************)
(* run_shader_job (fuzz.py): the execution of one shader job for one       *)
(* device.  A directory is whether it exists and its files with their      *)
(* texts; the external tools are given by what they do (tool_outcomes).    *)
(***************************************************************************)
MissingDir == [exists |-> FALSE, files |-> <<>>]

EmptyDir == [exists |-> TRUE, files |-> <<>>]

HasFile(dir, name) == dir.exists /\ name \in DOMAIN dir.files

\* util.file_write_text(dir / name, text): the parent directories are made,
\* then the file is written.
file_write_text(dir, name, text) ==
    [exists |-> TRUE, files |-> DictPut(dir.files, name, text)]

\* One external invocation, as kept in calls.
Call(tool, device, dump_image, dump_buffer) ==
    [tool |-> tool, device |-> device.name,
     dump_image |-> dump_image, dump_buffer |-> dump_buffer]

Return == [how |-> "return", exception |-> ""]

Raise(exception) == [how |-> "raise", exception |-> exception]

\* gflogging.push_stream_for_logging(stream)
push_stream_for_logging(stack, stream) == Append(stack, stream)

\* gflogging.pop_stream_for_logging()
pop_stream_for_logging(stack) == SubSeq(stack, 1, Len(stack) - 1)

\* An Amber runner called for output_dir: it raises, or returns after it
\* wrote the STATUS it found (or none).
RunAmber(tool, device, outcome, output_dir, is_compute) ==
    [exit       |-> IF outcome = "raise" THEN Raise("SubprocessError")
                    ELSE Return,
     output_dir |-> IF outcome \in {"raise", "no_status"} THEN output_dir
                    ELSE file_write_text(output_dir, "STATUS", outcome),
     calls      |-> << Call(tool, device, ~is_compute, is_compute) >>]

\* run_shader_job from "Consider device type" to its return statement.
DeviceDispatch(device, outcome, output_dir) ==
    IF device.kind = "preprocess"
    THEN [exit |-> Return,
          output_dir |-> file_write_text(output_dir, "STATUS", "SUCCESS"),
          calls |-> <<>>]
    ELSE LET host == IF device.kind \in {"host", "swift_shader"}
                     THEN RunAmber("host_device_util.run_amber", device,
                                   outcome.run_amber, output_dir,
                                   outcome.is_compute)
                     ELSE [exit |-> Return, output_dir |-> output_dir,
                           calls |-> <<>>]
             android == RunAmber("run_amber_on_device", device,
                                 outcome.run_amber_on_device,
                                 host.output_dir, outcome.is_compute)
         IN  IF host.exit.how = "raise" THEN host
             ELSE [exit |-> android.exit,
                   output_dir |-> android.output_dir,
                   calls |-> host.calls \o android.calls]

\* Mutant of OnSubprocessError: the status is written but the function goes
\* on to the device dispatch.
OnSubprocessError_NoReturn(device, outcome, output_dir) ==
    DeviceDispatch(device, outcome,
                   file_write_text(output_dir, "STATUS", "HOST_CRASH"))

\* The except SubprocessError clause around glsl_shader_job_to_amber_script.
OnSubprocessError(device, outcome, output_dir) ==
    [exit |-> Return,
     output_dir |-> file_write_text(output_dir, "STATUS", "HOST_CRASH"),
     calls |-> <<>>]

\* The body of run_shader_job's try statement: the conversion to an Amber
\* script, then the dispatch on the device.
TryBody(device, outcome, output_dir) ==
    LET convert == Call("glsl_shader_job_to_amber_script", device,
                        FALSE, FALSE)
        rest == IF outcome.glsl_shader_job_to_amber_script = "SubprocessError"
                THEN OnSubprocessError(device, outcome, output_dir)
                ELSE IF outcome.glsl_shader_job_to_amber_script # "ok"
                THEN [exit |-> Raise(outcome.glsl_shader_job_to_amber_script),
                      output_dir |-> output_dir, calls |-> <<>>]
                ELSE DeviceDispatch(device, outcome,
                         file_write_text(output_dir, "test.amber", "amber"))
    IN  [rest EXCEPT !.calls = <<convert>> \o @]

\* Mutant of Finally: the stream is popped at the return statements only.
Finally_OnReturnOnly(stack, body) ==
    IF body.exit.how = "return" THEN pop_stream_for_logging(stack) ELSE stack

\* The finally clause of run_shader_job: the stack after it.
Finally(stack, body) == pop_stream_for_logging(stack)

\* run_shader_job(shader_job, output_dir, test_glsl, device): how it ends,
\* the output directory, gflogging's stack and the tools invoked.  log.txt
\* is opened for writing without its directory being made; what the tools
\* log while the stream is pushed is its text.
run_shader_job(device, outcome, output_dir, stack) ==
    IF ~output_dir.exists
    THEN [exit |-> Raise("FileNotFoundError"), output_dir |-> output_dir,
          streams |-> stack, calls |-> <<>>]
    ELSE LET opened == file_write_text(output_dir, "log.txt", "")
             pushed == push_stream_for_logging(stack, "log.txt")
             body   == TryBody(device, outcome, opened)
             after  == Finally(pushed, body)
         IN  [exit       |-> body.exit,
              output_dir |-> file_write_text(body.output_dir, "log.txt",
                                             outcome.log),
              streams    |-> after,
              calls      |-> << Call("push_stream_for_logging", device,
                                     FALSE, FALSE) >>
                             \o body.calls
                             \o IF Len(after) < Len(pushed)
                                THEN << Call("pop_stream_for_logging", device,
                                             FALSE, FALSE) >>
                                ELSE <<>>]

(***************************************************************************)
(* The inputs of run_shader_job.                                           *)
(***************************************************************************)
DeviceKinds == {"preprocess", "host", "swift_shader", "android"}

AmberOutcomes == {"SUCCESS", "CRASH", "TIMEOUT", "no_status", "raise"}

ConvertOutcomes == {"ok", "SubprocessError", "OSError"}

ToolOutcomes ==
    [glsl_shader_job_to_amber_script : ConvertOutcomes,
     is_compute : BOOLEAN,
     run_amber : AmberOutcomes,
     run_amber_on_device : AmberOutcomes,
     log : {"Shader compilation failed", "Failed to link shaders"}]

(***************************************************************************)
(* SpecRun: one call of run_shader_job.                                    *)
(***************************************************************************)
InitRun ==
    /\ cts = NoCts
    /\ SigIdle
    /\ BinIdle
    /\ \E kind \in DeviceKinds :
           active_devices = << [name |-> "device_1", kind |-> kind] >>
    /\ tool_outcomes \in {<<o>> : o \in ToolOutcomes}
    /\ result_dirs \in {<<MissingDir>>, <<EmptyDir>>}
    /\ streams \in {<<>>, <<"stdout">>}
    /\ calls = <<>>
    /\ reports = <<>>
    /\ report_paths = <<>>
    /\ exit = NoExit
    /\ pc = [at |-> "run_shader_job", device |-> 1]
    /\ iteration = NoIteration

RunShaderJob ==
    /\ pc.at = "run_shader_job"
    /\ \E r \in {run_shader_job(active_devices[1], tool_outcomes[1],
                                result_dirs[1], streams)} :
           /\ result_dirs' = <<r.output_dir>>
           /\ streams' = r.streams
           /\ calls' = calls \o r.calls
           /\ exit' = r.exit
    /\ pc' = [pc EXCEPT !.at = "done"]
    /\ UNCHANGED <<active_devices, tool_outcomes, reports, report_paths,
                   iteration, sigVars, binVars, cts>>

NextRun == RunShaderJob

SpecRun == InitRun /\ [][NextRun]_vars

(***************************************************************************)
(* Claims about run_shader_job, under SpecRun.                             *)
(***************************************************************************)
\* The positions of calls at which the tool was invoked.
CallsOf(cs, tool) == {i \in DOMAIN cs : cs[i].tool = tool}

\* The job got past the opening of log.txt.
Entered == pc.at = "done" /\ CallsOf(calls, "push_stream_for_logging") # {}

\* C14, as claimed: run_shader_job invokes exactly the Amber runner of the
\* device's kind: none for a preprocess device (which gets STATUS SUCCESS and
\* a normal return), only the host runner for a host or swift_shader device,
\* only the device runner for an Android device.
C14_OnlyDesignatedRunner ==
    pc.at = "done" =>
        LET device == active_devices[1]
            host == CallsOf(calls, "host_device_util.run_amber")
            android == CallsOf(calls, "run_amber_on_device")
            reached == /\ Entered
                       /\ tool_outcomes[1].glsl_shader_job_to_amber_script
                              = "ok"
        IN  /\ device.kind = "preprocess" =>
                /\ host = {} /\ android = {}
                /\ reached => /\ exit = Return
                              /\ HasFile(result_dirs[1], "STATUS")
                              /\ result_dirs[1].files["STATUS"] = "SUCCESS"
            /\ device.kind \in {"host", "swift_shader"} =>
                /\ android = {}
                /\ reached => Cardinality(host) = 1
            /\ device.kind = "android" =>
                /\ host = {}
                /\ reached => Cardinality(android) = 1

\* C15: when the conversion to Amber raises SubprocessError, run_shader_job
\* writes STATUS HOST_CRASH, returns normally, and invokes no Amber runner.
C15_ConversionFailureIsHostCrash ==
    (Entered /\ tool_outcomes[1].glsl_shader_job_to_amber_script
                    = "SubprocessError") =>
        /\ exit = Return
        /\ HasFile(result_dirs[1], "STATUS")
        /\ result_dirs[1].files["STATUS"] = "HOST_CRASH"
        /\ CallsOf(calls, "host_device_util.run_amber") = {}
        /\ CallsOf(calls, "run_amber_on_device") = {}

C15_Witness ==
    /\ Entered
    /\ active_devices[1].kind = "android"
    /\ tool_outcomes[1].glsl_shader_job_to_amber_script = "SubprocessError"
    /\ tool_outcomes[1].run_amber_on_device = "CRASH"
    /\ result_dirs[1].files["STATUS"] = "HOST_CRASH"
    /\ exit = Return

\* C16: on every way out of run_shader_job (normal return, conversion
\* failure, preprocess return, an exception from a tool) the stream pushed
\* for log.txt is popped exactly once, and gflogging's stack is what it was
\* when the function was entered.
C16_StreamReleasedOnce ==
    [][(pc.at = "run_shader_job" /\ pc'.at = "done") =>
          /\ streams' = streams
          /\ Cardinality(CallsOf(calls', "pop_stream_for_logging"))
               = Cardinality(CallsOf(calls', "push_stream_for_logging"))
          /\ Cardinality(CallsOf(calls', "push_stream_for_logging")) <= 1]_vars

C16_Witness ==
    /\ Entered
    /\ exit = Raise("SubprocessError")
    /\ active_devices[1].kind = "host"
    /\ Cardinality(CallsOf(calls, "pop_stream_for_logging")) = 1
    /\ streams = <<"stdout">>

(***************************************************************************)
(* handle_glsl_test (fuzz.py): one test run on the active devices, the     *)
(* crashes copied to the reports directory.                                *)
(***************************************************************************)
\* result_get_status: the text of STATUS, or UNEXPECTED_ERROR without one.
result_get_status(result_output_dir) ==
    IF HasFile(result_output_dir, "STATUS")
    THEN result_output_dir.files["STATUS"]
    ELSE "UNEXPECTED_ERROR"

\* Mutant of AbortsRemaining: the device loop is never left early.
AbortsRemaining_Never(device, status) == FALSE

\* "if device.HasField("preprocess") and status == "HOST_CRASH": break"
AbortsRemaining(device, status) ==
    device.kind = "preprocess" /\ status = "HOST_CRASH"

\* Mutant of report_subdirectory_name: a timeout is reported as a crash.
report_subdirectory_name_Timeout(status) ==
    IF status \in {"CRASH", "TIMEOUT"} THEN "crashes"
    ELSE IF status = "HOST_CRASH" THEN "host_crashes"
    ELSE ""

\* The bucket of a status; "" for no report.
report_subdirectory_name(status) ==
    IF status = "CRASH" THEN "crashes"
    ELSE IF status = "HOST_CRASH" THEN "host_crashes"
    ELSE ""

\* The name of the test directory handled.
TestDirName == "test"

\* Mutant of test_get_results_directory: the source directory of the test.
test_get_results_directory_InSource(test_dir, device_name) ==
    <<test_dir, "source", "variant">>

\* test_get_results_directory(test_dir, device.name, is_variant=True)
test_get_results_directory(test_dir, device_name) ==
    <<test_dir, "results", device_name, "variant">>

NoMetadata == [present |-> FALSE, crash_signature |-> "", device |-> ""]

\* copy_dir(source, dest): dest is made with the files of source.  A result
\* directory holds no test metadata file, so neither does its copy.
copy_dir(source_path, source, dest) ==
    [path |-> dest, source |-> source_path, files |-> source.files,
     metadata |-> NoMetadata]

\* test_dir_metadata_read(test_dir): the metadata stored in the directory;
\* a directory without the metadata file is a filesystem error.
test_dir_metadata_read(test_dir) ==
    IF test_dir.metadata.present
    THEN [exit |-> Return, metadata |-> test_dir.metadata]
    ELSE [exit |-> Raise("FileNotFoundError"), metadata |-> NoMetadata]

\* test_dir_metadata_write(metadata, test_dir)
test_dir_metadata_write(metadata, test_dir) ==
    [test_dir EXCEPT !.metadata = [metadata EXCEPT !.present = TRUE]]

\* The second loop of handle_glsl_test from copy_dir to the append to
\* report_paths, for a device whose log has the signature sig: the report
\* directory, whether it was appended to report_paths, how the body ended.
ReportCrash(device, result_output_dir, bucket, sig) ==
    LET test_dir_in_reports ==
            copy_dir(test_get_results_directory(TestDirName, device.name),
                     result_output_dir,
                     <<"reports", bucket, sig,
                       TestDirName \o "_" \o device.name>>)
        read == test_dir_metadata_read(test_dir_in_reports)
    IN  IF read.exit.how = "raise"
        THEN [created |-> TRUE, queued |-> FALSE,
              report |-> test_dir_in_reports, exit |-> read.exit]
        ELSE [created |-> TRUE, queued |-> TRUE,
              report |-> test_dir_metadata_write(
                             [read.metadata EXCEPT !.crash_signature = sig,
                                                   !.device = device.name],
                             test_dir_in_reports),
              exit |-> Return]

\* The body of the second loop of handle_glsl_test for one device: whether
\* a report directory was made, and the rest as in ReportCrash.
ReportFor(device, result_output_dir) ==
    LET bucket == report_subdirectory_name(
                      result_get_status(result_output_dir))
        none   == [created |-> FALSE, queued |-> FALSE,
                   report |-> copy_dir(<<>>, MissingDir, <<>>)]
    IN  IF bucket = "" THEN none @@ [exit |-> Return]
        ELSE IF ~HasFile(result_output_dir, "log.txt")
        THEN none @@ [exit |-> Raise("FileNotFoundError")]
        ELSE ReportCrash(device, result_output_dir, bucket,
                 get_signature_from_log_contents(
                     result_output_dir.files["log.txt"]))

(***************************************************************************)
(* SpecTest: one call of handle_glsl_test, a device at a step.             *)
(***************************************************************************)
MaxDevices == 2

DeviceNames == <<"A", "B", "C", "D">>

\* The tool behaviours of the tests: a graphics shader job, a host runner
\* that leaves no STATUS.
TestOutcomes ==
    {o \in ToolOutcomes :
        /\ ~o.is_compute
        /\ o.run_amber = "no_status"
        /\ o.glsl_shader_job_to_amber_script # "OSError"
        /\ o.glsl_shader_job_to_amber_script = "SubprocessError" =>
               o.run_amber_on_device = "SUCCESS"
        /\ o.run_amber_on_device # "CRASH" =>
               o.log = "Shader compilation failed"}

InitTest ==
    /\ cts = NoCts
    /\ SigIdle
    /\ BinIdle
    /\ \E n \in 1..MaxDevices :
         /\ \E kinds \in [1..n -> DeviceKinds] :
              active_devices =
                  [i \in 1..n |-> [name |-> DeviceNames[i], kind |-> kinds[i]]]
         /\ tool_outcomes \in [1..n -> TestOutcomes]
         /\ result_dirs \in [1..n -> {MissingDir, EmptyDir}]
    /\ streams = <<>>
    /\ calls = <<>>
    /\ reports = <<>>
    /\ report_paths = <<>>
    /\ exit = NoExit
    /\ pc = [at |-> "run", device |-> 1]
    /\ iteration = NoIteration

\* First loop: run_shader_job on the next device, then its status is read.
RunDevice ==
    /\ pc.at = "run"
    /\ LET i == pc.device
           device == active_devices[i]
       IN  \E r \in {run_shader_job(device, tool_outcomes[i], result_dirs[i],
                                    streams)} :
             /\ result_dirs' = [result_dirs EXCEPT ![i] = r.output_dir]
             /\ streams' = r.streams
             /\ calls' = calls
                         \o << Call("run_shader_job", device, FALSE, FALSE) >>
                         \o r.calls
             /\ IF r.exit.how = "raise"
                THEN exit' = r.exit /\ pc' = [at |-> "done", device |-> i]
                ELSE /\ exit' = exit
                     /\ pc' = IF \/ i = Len(active_devices)
                                 \/ AbortsRemaining(device,
                                        result_get_status(r.output_dir))
                              THEN [at |-> "report", device |-> 1]
                              ELSE [at |-> "run", device |-> i + 1]
    /\ UNCHANGED <<active_devices, tool_outcomes, reports, report_paths,
                   iteration, sigVars, binVars, cts>>

\* Second loop: the status of the next device is read and its result is
\* reported if it crashed.  After the last device the reductions of the
\* third loop run for the report_paths.
ReportDevice ==
    /\ pc.at = "report"
    /\ LET i == pc.device
       IN  \E r \in {ReportFor(active_devices[i], result_dirs[i])} :
             /\ reports' = IF r.created THEN Append(reports, r.report)
                           ELSE reports
             /\ report_paths' = IF r.queued
                                THEN Append(report_paths, r.report.path)
                                ELSE report_paths
             /\ IF r.exit.how = "raise"
                THEN exit' = r.exit /\ pc' = [at |-> "done", device |-> i]
                ELSE IF i < Len(active_devices)
                THEN exit' = exit /\ pc' = [at |-> "report", device |-> i + 1]
                ELSE IF report_paths' = <<>>
                THEN exit' = Return /\ pc' = [at |-> "done", device |-> i]
                ELSE exit' = exit /\ pc' = [at |-> "reduce", device |-> 1]
    /\ UNCHANGED <<active_devices, tool_outcomes, result_dirs, streams, calls,
                   iteration, sigVars, binVars, cts>>

NextTest == RunDevice \/ ReportDevice

SpecTest == InitTest /\ [][NextTest]_vars

(***************************************************************************)
(* Claims about handle_glsl_test, under SpecTest.                          *)
(***************************************************************************)
\* The devices run_shader_job was called for, in the order of the calls.
DevicesRun ==
    LET IsRun(c) == c.tool = "run_shader_job"
        runs == SelectSeq(calls, IsRun)
    IN  [k \in 1..Len(runs) |-> runs[k].device]

\* The reports made from the result directory of the device.
ReportsOf(device) ==
    {k \in DOMAIN reports :
        reports[k].source
            = test_get_results_directory(TestDirName, device.name)}

C18_ReportMetadata ==
    \A k \in DOMAIN reports :
        /\ reports[k].metadata.present
        /\ reports[k].metadata.crash_signature
             = get_signature_from_log_contents(reports[k].files["log.txt"])
        /\ reports[k].metadata.device = reports[k].source[3]

\* C20: run_shader_job is called for the active devices in list order, one
\* call a device, and after a preprocess device whose run gave HOST_CRASH it
\* is called for no later device: a later device's result directory has no
\* STATUS and no report is made of it.
C20_PreprocessHostCrashAborts ==
    /\ Len(DevicesRun) <= Len(active_devices)
    /\ \A k \in DOMAIN DevicesRun : DevicesRun[k] = active_devices[k].name
    /\ \A k \in DOMAIN DevicesRun :
         ( /\ active_devices[k].kind = "preprocess"
           /\ result_get_status(result_dirs[k]) = "HOST_CRASH" ) =>
             /\ Len(DevicesRun) = k
             /\ \A j \in DOMAIN active_devices :
                  j > k => /\ ~HasFile(result_dirs[j], "STATUS")
                           /\ ReportsOf(active_devices[j]) = {}

C20_Witness ==
    /\ pc.at = "done"
    /\ Len(active_devices) = 2
    /\ active_devices[1].kind = "preprocess"
    /\ result_get_status(result_dirs[1]) = "HOST_CRASH"
    /\ result_dirs[2] = EmptyDir
    /\ tool_outcomes[2].run_amber_on_device = "CRASH"
    /\ DevicesRun = <<"A">>
    /\ ReportsOf(active_devices[1]) # {}

(***************************************************************************)
(* main (fuzz.py): one iteration of the fuzzing loop.                      *)
(***************************************************************************)
\* The value None.
None == [none |-> TRUE, path |-> <<>>]

\* util.mkdirs_p(path): the directory is made; there is no return
\* statement, so the call's value is None.
mkdirs_p(temp, path) == [temp |-> temp \cup {path}, value |-> None]

\* left / name, for a Path or None on the left.
PathDiv(left, name) ==
    IF left.none
    THEN [exit |-> Raise("TypeError"), value |-> None]
    ELSE [exit |-> Return,
          value |-> [none |-> FALSE, path |-> Append(left.path, name)]]

\* The six optimizer presets of an iteration, in the order of test_dirs.
Presets == <<"no_opt", "opt_O", "opt_Os", "opt_rand1", "opt_rand2",
             "opt_rand3">>

\* A draw of the random module (random.choice, random.randint) among the
\* values: the seeded stream's next number decides it.
random_choice(stream, values) ==
    [value |-> values[(Head(stream) % Len(values)) + 1],
     stream |-> Tail(stream)]

\* sorted(...) of the references found: the ascending list of any of the
\* shader jobs that can be under donors_dir.
SortedReferences ==
    LET all == <<"donors/a.json", "donors/b.json", "donors/c.json">>
        Pick(keep) == SelectSeq(all, LAMBDA r : r \in keep)
    IN  {Pick(keep) : keep \in SUBSET {all[k] : k \in DOMAIN all}}

InitMain ==
    /\ cts = NoCts
    /\ SigIdle
    /\ BinIdle
    /\ \E n \in 1..MaxDevices :
         \E kinds \in [1..n -> DeviceKinds] :
           active_devices =
               [i \in 1..n |-> [name |-> DeviceNames[i], kind |-> kinds[i]]]
    /\ tool_outcomes = <<>>
    /\ result_dirs = <<>>
    /\ streams = <<>>
    /\ calls = <<>>
    /\ reports = <<>>
    /\ report_paths = <<>>
    /\ exit = NoExit
    /\ pc = [at |-> "get_random_name", device |-> 0]
    /\ \E references \in SortedReferences, stream \in [1..2 -> 0..2] :
         iteration = [NoIteration EXCEPT !.references = references,
                                         !.stream = stream,
                                         !.twin.stream = stream]

\* test_name = get_random_name(): uuid.uuid4().hex, which is made of the
\* operating system's random bytes in each run; one of two names here.
PickName ==
    /\ pc.at = "get_random_name"
    /\ \E test_name \in {"c0ffee", "decade"},
          twin_name \in {"c0ffee", "decade"} :
         iteration' = [iteration EXCEPT !.test_name = test_name,
                                        !.twin.test_name = twin_name]
    /\ pc' = [pc EXCEPT !.at = "shader_job_copy"]
    /\ UNCHANGED <<active_devices, tool_outcomes, result_dirs, streams, calls,
                   reports, report_paths, exit, sigVars, binVars, cts>>

\* shader_job_copy(random.choice(references), <base_source>/reference/
\* shader.json); random.choice of an empty list raises IndexError.
CopyReference ==
    /\ pc.at = "shader_job_copy"
    /\ IF iteration.references = <<>>
       THEN /\ exit' = Raise("IndexError")
            /\ pc' = [pc EXCEPT !.at = "done"]
            /\ UNCHANGED <<iteration, calls>>
       ELSE /\ \E chosen \in {random_choice(iteration.stream,
                                               iteration.references)},
                    twin \in {random_choice(iteration.twin.stream,
                                             iteration.references)} :
                 /\ iteration' =
                      [iteration EXCEPT
                          !.reference = chosen.value,
                          !.stream = chosen.stream,
                          !.twin.reference = twin.value,
                          !.twin.stream = twin.stream,
                          !.temp = @ \cup {<<"temp", iteration.test_name,
                                             "base_source", "reference",
                                             "shader.json">>}]
                 /\ calls' = Append(calls,
                        [tool |-> "shader_job_copy",
                         device |-> chosen.value,
                         dump_image |-> FALSE, dump_buffer |-> FALSE])
            /\ pc' = [pc EXCEPT !.at = "randint"]
            /\ exit' = exit
    /\ UNCHANGED <<active_devices, tool_outcomes, result_dirs, streams,
                   reports, report_paths, sigVars, binVars, cts>>

\* seed = random.randint(-pow(2, 31), pow(2, 31) - 1): the least, the
\* greatest and one more of its values.
PickSeed ==
    /\ pc.at = "randint"
    /\ \E seed \in {random_choice(iteration.stream,
                                   <<-2147483647 - 1, 0, 2147483647>>)},
          twin \in {random_choice(iteration.twin.stream,
                                   <<-2147483647 - 1, 0, 2147483647>>)} :
         iteration' = [iteration EXCEPT !.seed = seed.value,
                                        !.stream = seed.stream,
                                        !.twin.seed = twin.value,
                                        !.twin.stream = twin.stream]
    /\ pc' = [pc EXCEPT !.at = "run_generate"]
    /\ UNCHANGED <<active_devices, tool_outcomes, result_dirs, streams, calls,
                   reports, report_paths, exit, sigVars, binVars, cts>>

\* The run_generate statement: its arguments are evaluated first, the third
\* being mkdirs_p(base_source_dir / VARIANT_DIR) / SHADER_JOB; the generator
\* is called if they all have a value, and the six make_subtest calls follow.
Generate ==
    /\ pc.at = "run_generate"
    /\ LET made == mkdirs_p(iteration.temp,
                            <<"temp", iteration.test_name, "base_source",
                              "variant">>)
           output == PathDiv(made.value, "shader.json")
       IN  /\ iteration' = [iteration EXCEPT !.temp = made.temp]
           /\ IF output.exit.how = "raise"
              THEN /\ exit' = output.exit
                   /\ pc' = [pc EXCEPT !.at = "done"]
                   /\ calls' = calls
              ELSE /\ exit' = exit
                   /\ pc' = [pc EXCEPT !.at = "make_subtest"]
                   /\ calls' = Append(calls,
                          [tool |-> "run_generate",
                           reference |-> iteration.reference,
                           output |-> output.value.path,
                           seed |-> iteration.seed])
    /\ UNCHANGED <<active_devices, tool_outcomes, result_dirs, streams,
                   reports, report_paths, sigVars, binVars, cts>>

NextMain == PickName \/ CopyReference \/ PickSeed \/ Generate

SpecMain == InitMain /\ [][NextMain]_vars

(***************************************************************************)
(* Claims about main's loop, under SpecMain.                               *)
(***************************************************************************)
\* C19, as claimed: in an iteration that has a reference the six siblings
\* are made and handled in preset order; when one of them has given a report no later one is
\* run on any device, so that at the end of the iteration the handled
\* siblings are a beginning of the presets which ends with the first
\* sibling that gave a report (or is all six), and the later siblings'
\* directories exist without a STATUS file.
C19_SiblingsInPresetOrderUntilReport ==
    (pc.at = "done" /\ iteration.reference # "") =>
        LET test_dirs == iteration.test_dirs
            handled == {k \in DOMAIN test_dirs : test_dirs[k].handled}
            reported == {k \in handled : test_dirs[k].report_paths # <<>>}
        IN  /\ Len(test_dirs) = Len(Presets)
            /\ \A k \in DOMAIN test_dirs :
                 test_dirs[k].name
                     = iteration.test_name \o "_" \o Presets[k] \o "_test"
            /\ \A k \in handled : \A j \in 1..k : j \in handled
            /\ \A k \in reported : \A j \in handled : j <= k
            /\ reported = {} => handled = DOMAIN test_dirs
            /\ \A k \in DOMAIN test_dirs :
                 k \notin handled =>
                     \A d \in DOMAIN test_dirs[k].result_dirs :
                         ~HasFile(test_dirs[k].result_dirs[d], "STATUS")

(***************************************************************************)
(* run_reduction (fuzz.py) and the third loop of handle_glsl_test: the two *)
(* reductions of a report and the "best" link.  The directories under      *)
(* reports_dir are the elements of reports; a symbolic link is a directory *)
(* entry whose files give its target.                                      *)
(***************************************************************************)
\* bool(message) of a protobuf message object such as test.device: a
\* message object is true whether or not the field holding it is set.
MessageTruth(message) == TRUE

\* left / name of pathlib for a directory path given by its parts: an empty
\* name adds nothing.
PathJoin(left, names) == left \o SelectSeq(names, LAMBDA n : n # "")

\* test_get_reduced_test_dir(test_dir, device_name, reduction_name)
test_get_reduced_test_dir(test_dir, device_name, reduction_name) ==
    PathJoin(test_dir, <<"results", device_name, "reductions",
                         reduction_name>>)

\* test_dir_metadata_read for the directory at a path among dirs.
MetadataAt(dirs, path) ==
    LET at == {k \in DOMAIN dirs : dirs[k].path = path}
    IN  IF at = {} THEN test_dir_metadata_read(copy_dir(<<>>, MissingDir, path))
        ELSE test_dir_metadata_read(dirs[CHOOSE k \in at : TRUE])

\* Mutant of check: the condition is not looked at.
check_Never(condition, exception) == Return

\* check(condition, exception): raises the exception unless the condition
\* holds.
check(condition, exception) ==
    IF condition THEN Return ELSE Raise(exception)

\* run_reduction from the call of run_glsl_reduce on, for the metadata test
\* read and the device name found: the reducer is run once for the work
\* directory, which it leaves with or without shader_reduced_final.json (or
\* it fails); then the final shader job is checked for, and the metadata and
\* the shader job are written to the reduced test directory.
ReduceTo(dirs, reduced_test_dir, test_dir_to_reduce, test, preserve_semantics, reducer) ==
    LET work == PathJoin(reduced_test_dir, <<"reduction_work", "variant">>)
        call == [tool |-> "glsl-reduce",
                 input |-> PathJoin(test_dir_to_reduce,
                                    <<"source", "variant", "shader.json">>),
                 metadata |-> test_dir_to_reduce,
                 output |-> work,
                 preserve_semantics |-> preserve_semantics]
        worked == Append(dirs,
                     [copy_dir(<<>>, MissingDir, work) EXCEPT
                         !.files = IF reducer = "final"
                                   THEN DictPut(<<>>,
                                            "shader_reduced_final.json",
                                            "reduced")
                                   ELSE <<>>])
        checked == check(HasFile([exists |-> TRUE,
                                  files |-> worked[Len(worked)].files],
                                 "shader_reduced_final.json"),
                         "AssertionError")
    IN  IF reducer = "raise"
        THEN [exit |-> Raise("SubprocessError"), dirs |-> dirs,
              calls |-> <<call>>, value |-> <<>>]
        ELSE IF checked.how = "raise"
        THEN [exit |-> checked, dirs |-> worked, calls |-> <<call>>,
              value |-> <<>>]
        ELSE [exit |-> Return,
              dirs |-> Append(worked,
                          test_dir_metadata_write(test,
                              [copy_dir(<<>>, MissingDir, reduced_test_dir)
                                  EXCEPT !.files =
                                      DictPut(<<>>,
                                          "source/variant/shader.json",
                                          "reduced")])),
              calls |-> <<call>>, value |-> reduced_test_dir]

\* run_reduction(test_dir_reduction_output, test_dir_to_reduce,
\* preserve_semantics, reduction_name, device_name); device_name "" is the
\* default None.
run_reduction(dirs, test_dir_reduction_output, test_dir_to_reduce, preserve_semantics, reduction_name, device_name, reducer) ==
    LET read == MetadataAt(dirs, test_dir_to_reduce)
        test == read.metadata
        stop(e) == [exit |-> e, dirs |-> dirs, calls |-> <<>>, value |-> <<>>]
    IN  IF read.exit.how = "raise" THEN stop(read.exit)
        ELSE IF device_name = "" /\ ~MessageTruth(test.device)
        THEN stop(Raise("AssertionError"))
        ELSE IF test.crash_signature = ""
        THEN stop(Raise("AssertionError"))
        ELSE ReduceTo(dirs,
                 test_get_reduced_test_dir(test_dir_reduction_output,
                     IF device_name = "" THEN test.device ELSE device_name,
                     reduction_name),
                 test_dir_to_reduce, test, preserve_semantics, reducer)

(***************************************************************************)
(* SpecReduce: the third loop of handle_glsl_test for one report.          *)
(***************************************************************************)
InitReduce ==
    /\ cts = NoCts
    /\ SigIdle
    /\ BinIdle
    /\ active_devices = <<>>
    /\ tool_outcomes \in [1..2 -> {"final", "no_final", "raise"}]
    /\ result_dirs = <<>>
    /\ streams = <<>>
    /\ calls = <<>>
    /\ \E bucket \in {"crashes", "host_crashes"},
          sig \in {"", "compile_error", "link_error"},
          device \in {"", "A", "B"} :
         LET path == <<"reports", bucket, sig, TestDirName \o "_A">>
         IN  /\ report_paths = <<path>>
             /\ reports = << test_dir_metadata_write(
                                [NoMetadata EXCEPT !.crash_signature = sig,
                                                   !.device = device],
                                copy_dir(<<>>, EmptyDir, path)) >>
    /\ exit = NoExit
    /\ pc = [at |-> "part_1_preserve_semantics", device |-> 0]
    /\ iteration = NoIteration

\* The input of the second reduction: the test directory the first gave.
Part2Input_Report(report, part_1_reduced_test) == report

Part2Input(report, part_1_reduced_test) == part_1_reduced_test

\* A call of run_reduction in the loop: the first, of the report, or the
\* second, of what the first returned (the last directory made).
Reduction(pass, name, preserve_semantics, next) ==
    /\ pc.at = name
    /\ \E r \in {run_reduction(reports, report_paths[1],
                     IF pass = 1 THEN report_paths[1]
                     ELSE Part2Input(report_paths[1],
                                     reports[Len(reports)].path),
                     preserve_semantics, name, "", tool_outcomes[pass])} :
         /\ reports' = r.dirs
         /\ calls' = calls \o r.calls
         /\ IF r.exit.how = "raise"
            THEN exit' = r.exit /\ pc' = [pc EXCEPT !.at = "done"]
            ELSE exit' = exit /\ pc' = [pc EXCEPT !.at = next]
    /\ UNCHANGED <<active_devices, tool_outcomes, result_dirs, streams,
                   report_paths, iteration, sigVars, binVars, cts>>

ReducePart1 ==
    Reduction(1, "part_1_preserve_semantics", TRUE, "part_2_change_semantics")

ReducePart2 ==
    Reduction(2, "part_2_change_semantics", FALSE, "best")

\* device_name = test_dir_metadata_read(test_dir_in_reports).device.name;
\* best_reduced_test.symlink_to(part_2_name, target_is_directory=True)
LinkBest ==
    /\ pc.at = "best"
    /\ LET read == MetadataAt(reports, report_paths[1])
           best == test_get_reduced_test_dir(report_paths[1],
                                             read.metadata.device, "best")
       IN  IF read.exit.how = "raise"
           THEN exit' = read.exit /\ reports' = reports
           ELSE /\ exit' = Return
                /\ reports' =
                     Append(reports,
                        [copy_dir(<<>>, MissingDir, best) EXCEPT
                            !.files = DictPut(<<>>, "symlink_to",
                                              "part_2_change_semantics")])
    /\ pc' = [pc EXCEPT !.at = "done"]
    /\ UNCHANGED <<active_devices, tool_outcomes, result_dirs, streams, calls,
                   report_paths, iteration, sigVars, binVars, cts>>

NextReduce == ReducePart1 \/ ReducePart2 \/ LinkBest

SpecReduce == InitReduce /\ [][NextReduce]_vars

(***************************************************************************)
(* Claims about the reductions, under SpecReduce.                          *)
(***************************************************************************)
\* The directory entries of reports at the path.
DirsAt(path) == {k \in DOMAIN reports : reports[k].path = path}

\* The reduced test directory of the reduction of that name (the device
\* directory is the one of the report's metadata).
ReducedTestDir(reduction_name) ==
    test_get_reduced_test_dir(report_paths[1], reports[1].metadata.device,
                              reduction_name)

\* The reduction of that name gave a reduced test: its work directory has
\* the final shader job and its test directory the metadata and shader job.
Reduced(reduction_name) ==
    /\ \E k \in DirsAt(PathJoin(ReducedTestDir(reduction_name),
                                <<"reduction_work", "variant">>)) :
            "shader_reduced_final.json" \in DOMAIN reports[k].files
    /\ \E k \in DirsAt(ReducedTestDir(reduction_name)) :
            /\ reports[k].metadata.present
            /\ "source/variant/shader.json" \in DOMAIN reports[k].files

\* C21: the reducer is first run with --preserve-semantics for
\* part_1_preserve_semantics; it is run for part_2_change_semantics only
\* once pass 1 has given its reduced test, whose shader job and metadata
\* are pass 2's input; the link best is made only when both passes have
\* given a reduced test, beside them, and its target is
\* part_2_change_semantics.
C21_TwoPassesThenBest ==
    /\ Len(calls) <= 2
    /\ Len(calls) >= 1 =>
         /\ calls[1].preserve_semantics
         /\ calls[1].metadata = report_paths[1]
         /\ calls[1].output
              = PathJoin(ReducedTestDir("part_1_preserve_semantics"),
                         <<"reduction_work", "variant">>)
    /\ Len(calls) = 2 =>
         /\ Reduced("part_1_preserve_semantics")
         /\ ~calls[2].preserve_semantics
         /\ calls[2].metadata = ReducedTestDir("part_1_preserve_semantics")
         /\ calls[2].input
              = PathJoin(ReducedTestDir("part_1_preserve_semantics"),
                         <<"source", "variant", "shader.json">>)
         /\ calls[2].output
              = PathJoin(ReducedTestDir("part_2_change_semantics"),
                         <<"reduction_work", "variant">>)
    /\ \A k \in DOMAIN reports :
         "symlink_to" \in DOMAIN reports[k].files =>
             /\ reports[k].path = ReducedTestDir("best")
             /\ reports[k].files["symlink_to"] = "part_2_change_semantics"
             /\ Reduced("part_1_preserve_semantics")
             /\ Reduced("part_2_change_semantics")
             /\ Len(calls) = 2

C21_Witness ==
    /\ pc.at = "done"
    /\ exit = Return
    /\ Len(calls) = 2
    /\ reports[1].metadata.device = "A"
    /\ \E k \in DirsAt(ReducedTestDir("best")) :
           reports[k].files["symlink_to"] = "part_2_change_semantics"

\* C22, as claimed: a call of run_reduction for a test without a crash
\* signature, or without a device_name argument and without a device in
\* the test's metadata, raises, the reducer not invoked and nothing
\* written.
C22_FailsFast ==
    [][( /\ pc.at \in {"part_1_preserve_semantics",
                       "part_2_change_semantics"}
         /\ pc' # pc
         /\ \/ reports[1].metadata.crash_signature = ""
            \/ reports[1].metadata.device = "" ) =>
          /\ exit'.how = "raise"
          /\ calls' = calls
          /\ reports' = reports]_vars

\* C23: when the reducer returns and its work directory has no
\* shader_reduced_final.json, run_reduction raises AssertionError; the
\* reducer is not run again, and the reduction's test directory gets
\* neither metadata nor shader job.
C23_NoFinalShaderIsFatal ==
    \A k \in DOMAIN calls :
        tool_outcomes[k] = "no_final" =>
            /\ exit = Raise("AssertionError")
            /\ pc.at = "done"
            /\ Len(calls) = k
            /\ DirsAt(SubSeq(calls[k].output, 1,
                             Len(calls[k].output) - 2)) = {}

C23_Witness ==
    /\ Len(calls) = 2
    /\ tool_outcomes = <<"final", "no_final">>
    /\ exit = Raise("AssertionError")
    /\ Reduced("part_1_preserve_semantics")
    /\ DirsAt(ReducedTestDir("part_2_change_semantics")) = {}

\* C24, as claimed: two runs of the loop started alike make the same
\* random choices in an iteration: the same test name, the same reference
\* and the same generator seed.
C24_SameChoicesInBothRuns ==
    /\ iteration.twin.test_name = iteration.test_name
    /\ iteration.twin.reference = iteration.reference
    /\ iteration.twin.seed = iteration.seed

\* C26, as claimed: in an iteration that has a reference the generator is
\* invoked exactly once, after the copy of the reference, with the output
\* <temp>/<test name>/base_source/variant/shader.json, the directory of
\* which has been made.
C26_GeneratorInvokedOnce ==
    (pc.at = "done" /\ iteration.reference # "") =>
        /\ Cardinality(CallsOf(calls, "run_generate")) = 1
        /\ \A g \in CallsOf(calls, "run_generate") :
             /\ \E c \in CallsOf(calls, "shader_job_copy") : c < g
             /\ calls[g].output = <<"temp", iteration.test_name,
                                    "base_source", "variant", "shader.json">>
        /\ <<"temp", iteration.test_name, "base_source", "variant">>
               \in iteration.temp

(***************************************************************************)
(* SpecHandle: handle_glsl_test for a sibling test, its three loops; the   *)
(* third is entered with a report that has metadata.                       *)
(***************************************************************************)
InitHandle == InitTest \/ InitReduce

NextHandle == NextTest \/ NextReduce

SpecHandle == InitHandle /\ [][NextHandle]_vars

\* C25: no step of handle_glsl_test writes under base_source, under the
\* sibling's source or to its metadata.  The steps that run the test write
\* to the result directory of the device run, <test>/results/<device>/...,
\* and to nothing else; the steps that report and reduce write to
\* directories under reports and to nothing else.
C25_WritesOnlyResultsAndReports ==
    [][LET results == {i \in DOMAIN result_dirs :
                          result_dirs'[i] # result_dirs[i]}
           made == {k \in DOMAIN reports' :
                       k \notin DOMAIN reports \/ reports'[k] # reports[k]}
       IN  /\ iteration' = iteration
           /\ DOMAIN result_dirs' = DOMAIN result_dirs
           /\ \A i \in results :
                /\ pc.at = "run" /\ pc.device = i
                /\ SubSeq(test_get_results_directory(
                              TestDirName, active_devices[i].name), 1, 3)
                     = <<TestDirName, "results", active_devices[i].name>>
           /\ \A k \in made :
                /\ pc.at # "run"
                /\ reports'[k].path[1] = "reports"
           /\ \A k \in DOMAIN reports' :
                reports'[k].source # <<>> =>
                    SubSeq(reports'[k].source, 1, 2)
                        = <<TestDirName, "results">>]_vars

C25_Witness ==
    /\ Len(active_devices) = 2
    /\ HasFile(result_dirs[1], "STATUS")
    /\ HasFile(result_dirs[2], "STATUS")
    /\ Len(reports) = 1
    /\ reports[1].source = <<TestDirName, "results", "B", "variant">>

(***************************************************************************)
(* add_amber_tests_to_cts.py: adding an Amber test to a VK-GL-CTS          *)
(* checkout.  A file is the sequence of its lines, each ending in "\n";    *)
(* reading past the end gives "", and writing "" writes nothing.           *)
(***************************************************************************)

\* str.startswith
startswith(line, prefix) ==
    /\ Len(line) >= Len(prefix)
    /\ SubSeq(line, 1, Len(prefix)) = prefix

\* get_cpp_line_to_write: the fields of a test line, each brought to its
\* column by check_and_add_tabs (one tab stands for the run of tabs).
get_cpp_line_to_write(amber_test_name, short_description) ==
    "\t\t{" \o "\t" \o "\"" \o amber_test_name \o ".amber\","
            \o "\t" \o "\"" \o amber_test_name \o "\","
            \o "\t" \o "\"" \o short_description \o "\""
            \o "\t" \o "},\n"

\* The line add_amber_test_to_must_pass writes for a test.
MustPassLine(amber_test_name) ==
    "dEQP-VK.graphicsfuzz." \o amber_test_name \o "\n"

\* The names of the Amber tests.
AmberTestNames == {"a", "b", "c"}

\* The lines of the files, in ascending order of Python's str comparison
\* (code points: "\t" < "\n" < "\"" < "#" < "." < letters < "{" < "}").
LineOrder ==
    << get_cpp_line_to_write("a", ""),
       get_cpp_line_to_write("b", ""),
       get_cpp_line_to_write("c", ""),
       "\ttests[] =\n",
       "\t{\n",
       "\t};\n",
       "#include \"vktAmberGraphicsFuzzTests.hpp\"\n",
       "dEQP-VK.api.smoke\n",
       MustPassLine("a"),
       MustPassLine("b"),
       MustPassLine("c"),
       "dEQP-VK.wsi.x\n" >>

\* The place of a line in that order; "" comes before every line.
Rank(line) ==
    IF line = "" THEN 0
    ELSE CHOOSE i \in 1..Len(LineOrder) : LineOrder[i] = line

\* line >= line_to_write on str
StrGE(line, line_to_write) == Rank(line) >= Rank(line_to_write)

\* file.write(text)
Write(out, text) == IF text = "" THEN out ELSE Append(out, text)

\* file.readline() at position pos (the next line to read)
readline(lines, pos) == IF pos <= Len(lines) THEN lines[pos] ELSE ""

\* "if line != line_to_write" with the test removed: the line is written
\* whether or not it is already there.
LineMissing_Always(line, line_to_write) == TRUE

\* "Don't write the line if it already exists": if line != line_to_write
LineMissing(line, line_to_write) == line # line_to_write

\* The end of both functions: the new line unless the line read last is that
\* line, then the line read last, then the remaining lines of the input.
WriteLineAndRest(lines, pos, line, line_to_write, out) ==
    LET with_new == IF LineMissing(line, line_to_write)
                    THEN Write(out, line_to_write)
                    ELSE out
    IN  Write(with_new, line) \o SubSeq(lines, pos, Len(lines))

\* The for loop that leaves at the first line with the prefix: the place of
\* that line, or Len(lines) + 1 when the loop runs to the end of the input.
FirstWithPrefix(lines, prefix) ==
    IF \E k \in 1..Len(lines) : startswith(lines[k], prefix)
    THEN CHOOSE k \in 1..Len(lines) :
             /\ startswith(lines[k], prefix)
             /\ \A j \in 1..(k - 1) : ~startswith(lines[j], prefix)
    ELSE Len(lines) + 1

\* The loop variable after a for loop over the lines from..Len(lines) that
\* left at line k (k > Len(lines): ran to the end): the line it left at, or
\* the last line it read, or the earlier value when it read nothing.
LoopVariable(lines, from, k, earlier) ==
    IF k <= Len(lines) THEN lines[k]
    ELSE IF Len(lines) >= from THEN lines[Len(lines)]
    ELSE earlier

RECURSIVE MustPassWhile(_, _, _, _, _)
\* add_amber_test_to_must_pass, "while True": lines below line_to_write are
\* written and the next one read, until the input ends or a line is not
\* below; then the end of the function.
MustPassWhile(lines, pos, line, line_to_write, out) ==
    IF Len(line) = 0 \/ StrGE(line, line_to_write)
    THEN WriteLineAndRest(lines, pos, line, line_to_write, out)
    ELSE MustPassWhile(lines, pos + 1, readline(lines, pos), line_to_write,
                       Write(out, line))

\* add_amber_test_to_must_pass(amber_test_name, must_pass_file_path): the
\* lines of the file afterwards, from its lines before.
add_amber_test_to_must_pass(amber_test_name, lines) ==
    LET line_to_write == MustPassLine(amber_test_name)
        k    == FirstWithPrefix(lines, "dEQP-VK.graphicsfuzz.")
        out  == SubSeq(lines, 1, k - 1)
        line == LoopVariable(lines, 1, k, "")
    IN  MustPassWhile(lines, k + 1, line, line_to_write, out)

RECURSIVE CppScan(_, _, _)
\* add_amber_test_to_cpp, the second for loop: where it leaves (the first
\* line from pos on that is no test line or is not below line_to_write), or
\* Len(lines) + 1 when it runs to the end of the input.
CppScan(lines, pos, line_to_write) ==
    IF pos > Len(lines) THEN pos
    ELSE IF ~startswith(lines[pos], "\t\t{") THEN pos
    ELSE IF StrGE(lines[pos], line_to_write) THEN pos
    ELSE CppScan(lines, pos + 1, line_to_write)

\* add_amber_test_to_cpp(vk_gl_cts, amber_test_name): the lines of
\* vktAmberGraphicsFuzzTests.cpp afterwards, from its lines before and the
\* short description found in the Amber test file.
add_amber_test_to_cpp(amber_test_name, short_description, lines) ==
    LET line_to_write == get_cpp_line_to_write(amber_test_name,
                                               short_description)
        t     == FirstWithPrefix(lines, "\ttests[] =")
        \* the lines up to and with "tests[] =", then the one read by
        \* readline
        from  == IF t <= Len(lines) THEN t + 2 ELSE t + 1
        out   == Write(SubSeq(lines, 1, IF t <= Len(lines) THEN t ELSE t - 1),
                       readline(lines, t + 1))
        k     == CppScan(lines, from, line_to_write)
        line  == LoopVariable(lines, from, k, "")
    IN  WriteLineAndRest(lines, k + 1, line, line_to_write,
                         out \o SubSeq(lines, from, k - 1))

\* The longest must-pass file, and the longest block of test lines in the
\* C++ table, before the first run.
MaxLines == 3

\* The lines a must-pass file is made of.
MustPassLines ==
    {"dEQP-VK.api.smoke\n", "dEQP-VK.wsi.x\n"}
        \cup {MustPassLine(n) : n \in AmberTestNames}

\* Sequences over S of length at most n.
SeqUpTo(S, n) == UNION {[1..m -> S] : m \in 0..n}

\* The test lines of tests[] are in ascending order without repetition.
Ascending(lines) ==
    \A i, j \in 1..Len(lines) : i < j => Rank(lines[i]) < Rank(lines[j])

\* vktAmberGraphicsFuzzTests.cpp: the lines before the table, "tests[] =",
\* the opening brace, the test lines in order, the closing brace.
CppFiles ==
    { << "#include \"vktAmberGraphicsFuzzTests.hpp\"\n", "\ttests[] =\n",
         "\t{\n" >> \o block \o << "\t};\n" >> :
      block \in {b \in SeqUpTo({get_cpp_line_to_write(n, "") :
                                   n \in AmberTestNames}, MaxLines) :
                    Ascending(b)} }

\* A file of the checkout and the name of the test to add; every other
\* component is idle.
InitCts ==
    /\ \E file \in {"must_pass", "cpp"}, name \in AmberTestNames :
         \E lines \in IF file = "cpp" THEN CppFiles
                      ELSE SeqUpTo(MustPassLines, MaxLines) :
           cts = [file |-> file, lines |-> lines, amber_test_name |-> name,
                  runs |-> 0, original |-> lines, first |-> <<>>]
    /\ SigIdle
    /\ BinIdle
    /\ FuzzIdle

\* One run of a function on the file: the lines are replaced by the
\* function's output (the .bak copy is removed again).
RunOnFile(lines) ==
    /\ cts.runs < 2
    /\ cts' = [cts EXCEPT !.lines = lines,
                          !.runs = @ + 1,
                          !.first = IF cts.runs = 0 THEN lines ELSE @]
    /\ UNCHANGED <<sigVars, binVars, fuzzVars>>

\* add_amber_test_to_must_pass on a must-pass file
AddAmberTestToMustPass ==
    /\ cts.file = "must_pass"
    /\ RunOnFile(add_amber_test_to_must_pass(cts.amber_test_name, cts.lines))

\* add_amber_test_to_cpp on the C++ table; the Amber test file has no short
\* description line, so that get_amber_test_short_description gives "".
AddAmberTestToCpp ==
    /\ cts.file = "cpp"
    /\ RunOnFile(add_amber_test_to_cpp(cts.amber_test_name, "", cts.lines))

NextCts == AddAmberTestToMustPass \/ AddAmberTestToCpp

SpecCts == InitCts /\ [][NextCts]_vars

\* The lines with the prefix of GraphicsFuzz tests, in file order.
GraphicsFuzzLines(lines) ==
    SelectSeq(lines, LAMBDA l : startswith(l, "dEQP-VK.graphicsfuzz."))

\* No line of the sequence is below an earlier one.
IsSorted(lines) ==
    \A i, j \in 1..Len(lines) : i < j => Rank(lines[i]) <= Rank(lines[j])

\* after is before with the line put in at one place.
IsInsertion(before, after, line) ==
    \E i \in 0..Len(before) :
        after = SubSeq(before, 1, i) \o <<line>>
                    \o SubSeq(before, i + 1, Len(before))

\* C27: add_amber_test_to_must_pass changes a must-pass file only by
\* inserting the new test's line: after one run on any file (also one
\* without a GraphicsFuzz line, or one that ends with its GraphicsFuzz
\* lines) the file has the new line and is the file before, unchanged or
\* with the new line put in at one place, and GraphicsFuzz lines that were
\* sorted are still sorted.
C27_MustPassOnlyInsertsLine ==
    (cts.file = "must_pass" /\ cts.runs = 1) =>
        LET line_to_write == MustPassLine(cts.amber_test_name)
        IN  /\ \E i \in 1..Len(cts.lines) : cts.lines[i] = line_to_write
            /\ \/ cts.lines = cts.original
               \/ IsInsertion(cts.original, cts.lines, line_to_write)
            /\ IsSorted(GraphicsFuzzLines(cts.original))
                   => IsSorted(GraphicsFuzzLines(cts.lines))

\* C28: adding an Amber test is idempotent: a second run of
\* add_amber_test_to_cpp or add_amber_test_to_must_pass with the same test
\* name on the result of the first run leaves the file as the first run
\* left it.
C28_SecondRunChangesNothing ==
    cts.runs = 2 => cts.lines = cts.first

\* The C++ table after two runs, of which the first put the test's line in
\* between two test lines.
C28_Witness ==
    /\ cts.file = "cpp"
    /\ cts.runs = 2
    /\ \E i \in 2..(Len(cts.original) - 1) :
           /\ cts.first[i + 1] = get_cpp_line_to_write(cts.amber_test_name, "")
           /\ startswith(cts.first[i], "\t\t{")
           /\ startswith(cts.first[i + 2], "\t\t{")
           /\ Len(cts.first) = Len(cts.original) + 1

====
